---- MODULE Spec2Model ----
(***************************************************************************)
(* Model of src/dicer/voxel.js: the voxel grids (VoxelGridCpu,             *)
(* VoxelGridGpu) and the GPU kernel dispatcher (GpuKernels).               *)
(*                                                                         *)
(* Numbers.  Cell values and coordinates are integers.  Resolutions are    *)
(* even integers, so that the half-cell term 0.5 * res of the host         *)
(* centerOf is an integer and no rounding is involved.  A distance is      *)
(* stored as its square: sqrt is strictly increasing on the non-negative   *)
(* numbers, so sd.w == 0, nsd.w < 0 and nd < sd.w decide the same way on   *)
(* the squares, and the invalid marker -1 stays -1.                        *)
(***************************************************************************)
EXTENDS Integers, Sequences, FiniteSets, TLC

\* ------------------------------------------------------------------ bounds
\* Largest number of cells of a grid under Spec and SpecReg.
MaxCells == 2
\* Largest number of cells of a grid under SpecDF.
MaxCellsDF == 4
\* Calls are made only while at most this many device buffers are alive
\* (leaked buffers accumulate, so the count has to be capped).
MaxLive == 3
\* The largest number of cells of a host grid.
MaxCellsHost == 9
\* The largest coordinate of a point at which an SDF is evaluated.
MaxCoord == 6

\* Most cells of a grid whose reduction is dispatched.
MaxElems == 129

\* ------------------------------------------------------- program constants
wgSize == 128
\* const blockSize = 8 of traverseAllPointsInside
blockSize == 8
invalidValue == 65536

\* A value that is no grid: the null of "let tmpBuf = null" and of a
\* destroyed grid's buffer field.
Null == "null"

\* ------------------------------------------------------------ grid metadata
Vec3(x, y, z) == <<x, y, z>>

\* new VoxelGridCpu(res, numX, numY, numZ, ofs, type)
VoxelGridCpu(res, numX, numY, numZ, ofs, type) ==
    [kind |-> "cpu", res |-> res, numX |-> numX, numY |-> numY, numZ |-> numZ,
     ofs |-> ofs, type |-> type, buffer |-> "ArrayBuffer"]

\* new VoxelGridGpu(kernels, res, numX, numY, numZ, ofs, type)
VoxelGridGpu(res, numX, numY, numZ, ofs, type) ==
    [kind |-> "gpu", res |-> res, numX |-> numX, numY |-> numY, numZ |-> numZ,
     ofs |-> ofs, type |-> type, buffer |-> "buf-storage"]

sizeOfType(ty) ==
    CASE ty = "u32" -> 4
      [] ty = "f32" -> 4
      [] ty = "vec3f" -> 16
      [] ty = "vec4f" -> 16

checkAllowedType(ty) == ty \in {"u32", "f32", "vec3f", "vec4f"}

NumCells(g) == g.numX * g.numY * g.numZ

\* Byte length of the grid's buffer (ArrayBuffer.byteLength / GPUBuffer.size).
ByteSize(g) == NumCells(g) * sizeOfType(g.type)

\* gridSnippet: decompose_ix, on the nums uniform (numX, numY, numZ).
decompose_ix(g, ix) ==
    <<ix % g.numX, (ix \div g.numX) % g.numY, ix \div (g.numX * g.numY)>>

\* gridSnippet: compose_ix.
compose_ix(g, ix3) == ix3[1] + ix3[2] * g.numX + ix3[3] * g.numX * g.numY

\* gridSnippet: cell_center, on the ofs_res uniform: vec3f(ix3) * res + ofs.
cell_center(g, ix3) == [k \in 1..3 |-> ix3[k] * g.res + g.ofs[k]]

\* VoxelGridCpu.centerOf: (ix + 0.5) * res + ofs; res is even.
centerOf(g, ix3) == [k \in 1..3 |-> ((2 * ix3[k] + 1) * g.res) \div 2 + g.ofs[k]]

\* CompatError without the test of res.
CompatErrorNoRes(grid1, grid2) ==
    IF grid1.numX # grid2.numX \/ grid1.numY # grid2.numY \/ grid1.numZ # grid2.numZ
    THEN "Grid size mismatch"
    ELSE IF grid1.ofs[1] # grid2.ofs[1] \/ grid1.ofs[2] # grid2.ofs[2]
            \/ grid1.ofs[3] # grid2.ofs[3]
    THEN "Grid offset mismatch"
    ELSE "ok"

\* One incompatibility test of #checkGridCompat's loop body, in its order.
CompatError(grid1, grid2) ==
    IF grid1.numX # grid2.numX \/ grid1.numY # grid2.numY \/ grid1.numZ # grid2.numZ
    THEN "Grid size mismatch"
    ELSE IF grid1.ofs[1] # grid2.ofs[1] \/ grid1.ofs[2] # grid2.ofs[2]
            \/ grid1.ofs[3] # grid2.ofs[3]
    THEN "Grid offset mismatch"
    ELSE IF grid1.res # grid2.res
    THEN "Grid resolution mismatch"
    ELSE "ok"

\* #checkGridCompat(grid1, ...grids): the error of the first incompatible
\* grid of the sequence grids, "ok" when there is none.
checkGridCompat(grid1, grids) ==
    LET bad == {i \in 1..Len(grids) : CompatError(grid1, grids[i]) # "ok"}
    IN IF bad = {} THEN "ok"
       ELSE CompatError(grid1, grids[CHOOSE i \in bad : \A j \in bad : i <= j])

\* ------------------------------------------------------------------ kernels
\* WGSL snippets registered by the constructor.
df_init == "if (vi > 0) { vo = vec4f(p, 0); } else { vo = vec4f(0, 0, 0, -1); }"
df_to_dist == "vo = vi.w;"
project_to_axis ==
    "let axis = vec3f(1, 0, 0); if (vi > 0) { vo = dot(axis, p); } else { vo = 65536; }"

\* Snippets a caller registers: the examples of the documentation comments
\* and the negation of an f32 cell.
SnippetMark == "vo = 0; if (vi == 1) { vo = 1; } else if (p.x > 0.5) { vo = 2; }"
SnippetNegate == "vo = -vi;"
SnippetAnd == "if (vi1 > 0 && vi2 > 0) { vo = 1; } else { vo = 0; }"
SnippetOr == "if (vi1 > 0 || vi2 > 0) { vo = 1; } else { vo = 0; }"
SnippetAdd == "vo = f32(vi1 + vi2);"
SnippetMask == "if (vi1 > 0) { vo = vi2; } else { vo = 0; }"
SnippetMin == "vo = min(vi1, vi2);"
SnippetMax == "vo = max(vi1, vi2);"

vec4f(xyz, w) == [xyz |-> xyz, w |-> w]

\* The value of vo after a map snippet ran with p and vi bound.
EvalMapSnippet(snippet, p, vi) ==
    CASE snippet = df_init ->
           IF vi > 0 THEN vec4f(p, 0) ELSE vec4f(Vec3(0, 0, 0), -1)
      [] snippet = df_to_dist -> vi.w
      [] snippet = project_to_axis -> IF vi > 0 THEN p[1] ELSE invalidValue
      [] snippet = SnippetMark -> IF vi = 1 THEN 1 ELSE IF p[1] >= 1 THEN 2 ELSE 0
      [] snippet = SnippetNegate -> 0 - vi

\* The value of vo after a map2 snippet ran with vi1 and vi2 bound.
EvalMap2Snippet(snippet, p, vi1, vi2) ==
    CASE snippet = SnippetAnd -> IF vi1 > 0 /\ vi2 > 0 THEN 1 ELSE 0
      [] snippet = SnippetOr -> IF vi1 > 0 \/ vi2 > 0 THEN 1 ELSE 0
      [] snippet = SnippetAdd -> vi1 + vi2
      [] snippet = SnippetMask -> IF vi1 > 0 THEN vi2 ELSE 0

\* The compiled map pipeline of registerMapFn.
MapPipeline(name, inType, outType, snippet) ==
    [entryPoint |-> "map_" \o name, inType |-> inType, outType |-> outType,
     snippet |-> snippet]

\* The compiled map2 pipeline of registerMap2Fn.
Map2Pipeline(name, inType1, inType2, outType, snippet) ==
    [entryPoint |-> "map2_" \o name, inType1 |-> inType1, inType2 |-> inType2,
     outType |-> outType, snippet |-> snippet]

\* The compiled reduce pipeline of registerReduceFn.
ReducePipeline(name, valType, initVal, snippet) ==
    [entryPoint |-> "reduce_" \o name, valType |-> valType, initVal |-> initVal,
     snippet |-> snippet]

\* Snippets of the reduce functions the constructor registers.
min_ignore_invalid ==
    "vo = min(select(vi1, 1e5, vi1 == 65536), select(vi2, 1e5, vi2 == 65536));"
max_ignore_invalid ==
    "vo = max(select(vi1, -1e5, vi1 == 65536), select(vi2, -1e5, vi2 == 65536));"

\* WGSL select(f, t, cond).
select(f, t, cond) == IF cond THEN t ELSE f

min(a, b) == IF a <= b THEN a ELSE b
max(a, b) == IF a >= b THEN a ELSE b

\* The value of vo after a reduce snippet ran with vi1 and vi2 bound.
EvalReduceSnippet(snippet, vi1, vi2) ==
    CASE snippet = min_ignore_invalid ->
           min(select(vi1, 100000, vi1 = invalidValue),
               select(vi2, 100000, vi2 = invalidValue))
      [] snippet = max_ignore_invalid ->
           max(select(vi1, -100000, vi1 = invalidValue),
               select(vi2, -100000, vi2 = invalidValue))
      [] snippet = SnippetMin -> min(vi1, vi2)
      [] snippet = SnippetMax -> max(vi1, vi2)

\* The number an initVal expression denotes.
InitValOf(initVal) ==
    CASE initVal = "1e5" -> 100000
      [] initVal = "1e9" -> 1000000000
      [] initVal = "-1e9" -> -1000000000

\* Threads #dispatchKernel launches for numThreads wanted executions:
\* ceil(numThreads / 128) workgroups of wgSize threads each.
DispatchThreads(numThreads) ==
    0 .. (((numThreads + 127) \div 128) * wgSize - 1)

\* The map kernel's writes: thread index returns when index >= arrayLength(vs_in),
\* otherwise stores vo to vs_out[index].  vsOut is the output buffer before.
MapKernel(pipeline, g, vsIn, vsOut) ==
    [i \in 1..Len(vsOut) |->
        IF (i - 1) \in DispatchThreads(NumCells(g)) /\ (i - 1) < Len(vsIn)
        THEN EvalMapSnippet(pipeline.snippet, cell_center(g, decompose_ix(g, i - 1)),
                            vsIn[i])
        ELSE vsOut[i]]

\* The map2 kernel's writes.
Map2Kernel(pipeline, g, vsIn1, vsIn2, vsOut) ==
    [i \in 1..Len(vsOut) |->
        IF (i - 1) \in DispatchThreads(NumCells(g)) /\ (i - 1) < Len(vsIn1)
        THEN EvalMap2Snippet(pipeline.snippet, cell_center(g, decompose_ix(g, i - 1)),
                             vsIn1[i], vsIn2[i])
        ELSE vsOut[i]]

\* A freshly created buffer of a grid: zero-initialised.
ZeroCells(g) == [i \in 1..NumCells(g) |-> 0]

\* ------------------------------------------------------------------- state
VARIABLES
    grid,             \* grid object -> its fields (metadata, buffer)
    cells,            \* grid object -> contents of its buffer, cell i at i + 1
    mapPipelines,     \* name -> pipeline, the names registered by registerMapFn
    map2Pipelines,    \* name -> pipeline, the names registered by registerMap2Fn
    reducePipelines,  \* name -> pipeline, the names registered by registerReduceFn
    live,             \* buffer label -> number of device buffers not destroyed
    lastCall,         \* the call that finished last and how it ended
    dfpc,             \* distField: "idle", "pass" (jump flood running), "final"
    dfArgs,           \* distField: <<inSeedBuf, outDistBuf>>
    dfPass,           \* distField: the loop variable pass
    dfBuf,            \* distField: contents of the buffer of the local grid df
    tk,               \* jump_flood thread -> next entry of offsets to visit
                      \* (7: storing its entry, 8: returned)
    tsd               \* jump_flood thread -> its local variable sd

vars == <<grid, cells, mapPipelines, map2Pipelines, reducePipelines, live, lastCall,
          dfpc, dfArgs, dfPass, dfBuf, tk, tsd>>

dfVars == <<dfpc, dfArgs, dfPass, dfBuf, tk, tsd>>
registry == <<mapPipelines, map2Pipelines, reducePipelines>>

BufLabels == {"buf-storage", "buf-uniform", "buf-for-cpu-read"}

TotalLive == live["buf-storage"] + live["buf-uniform"] + live["buf-for-cpu-read"]

\* The caller awaits a call before it makes the next one.
CanCall == dfpc = "idle" /\ TotalLive <= MaxLive

GpuGrids == {g \in DOMAIN grid : grid[g].kind = "gpu"}

\* createLike(buf, type): a new device grid with buf's shape.
createLike(buf, type) ==
    VoxelGridGpu(buf.res, buf.numX, buf.numY, buf.numZ, buf.ofs,
                 IF type = Null THEN buf.type ELSE type)

\* ------------------------------------------------- the pipeline tables
\* The tables are plain objects ({}), read as table[name]: besides the names
\* assigned by the register functions, such a read finds the properties every
\* object inherits from Object.prototype, and their values are truthy.
ObjectPrototypeNames ==
    {"constructor", "toString", "toLocaleString", "valueOf", "hasOwnProperty",
     "isPrototypeOf", "propertyIsEnumerable", "__proto__"}

\* The test  if (this.mapPipelines[name])  and its likes: table[name] is truthy.
Has(table, name) == name \in DOMAIN table \/ name \in ObjectPrototypeNames

\* ------------------------------------------------- what one call does
\* The outcome of a call: error is "ok" or the message thrown; cells maps every
\* grid (the call's local grids included) to its contents afterwards; storage,
\* uniform, cpuRead count the buffers the call created and did not destroy;
\* created counts every device.createBuffer, queued every queue command;
\* result is the value returned (Null: the call returns nothing, or threw);
\* dispatches lists the kernel dispatches the call submitted, in order.
Outcome(error, C, storage, uniform, cpuRead, created, queued) ==
    [error |-> error, cells |-> C, storage |-> storage, uniform |-> uniform,
     cpuRead |-> cpuRead, created |-> created, queued |-> queued, result |-> Null,
     dispatches |-> <<>>]

\* The four words an initFn writes to the nums uniform of a dispatch on grid g.
Nums(g, w) == <<g.numX, g.numY, g.numZ, w>>

\* A dispatch of #dispatchKernel: the pipeline's entry point and the contents
\* of the nums uniform bound at binding 100.
Dispatch(entryPoint, nums) == [entryPoint |-> entryPoint, nums |-> nums]

\* The outcome o of a call that submitted the dispatch d.
Submitted(o, d) == [o EXCEPT !.dispatches = <<d>>]

\* copyBuffer without the test of the byte lengths.
copyBufferNoSizeTest(src, dst, G, C) ==
    IF G[src].buffer = Null \/ G[dst].buffer = Null
    THEN Outcome("TypeError: Cannot read properties of null", C, 0, 0, 0, 0, 0)
    ELSE IF G[src].kind = "cpu" /\ G[dst].kind = "cpu"
    THEN Outcome("ok", [C EXCEPT ![dst] = C[src]], 0, 0, 0, 0, 0)
    ELSE IF G[src].kind = "cpu" /\ G[dst].kind = "gpu"
    THEN Outcome("ok", [C EXCEPT ![dst] = C[src]], 0, 0, 0, 0, 1)
    ELSE IF G[src].kind = "gpu" /\ G[dst].kind = "cpu"
    THEN Outcome("ok", [C EXCEPT ![dst] = C[src]], 0, 0, 0, 1, 1)
    ELSE Outcome("TypeError: queue.copyBufferToBuffer is not a function",
                 C, 0, 0, 0, 0, 0)

\* copyBuffer(inBuf, outBuf) on the buffers of grids src and dst.  The bytes
\* are copied as they are: between grids of one cell type the cells of dst
\* become those of src.  (The grids of 4-byte cells that the specifications
\* copy between are all u32.)
copyBuffer(src, dst, G, C) ==
    IF G[src].buffer = Null \/ G[dst].buffer = Null
    THEN Outcome("TypeError: Cannot read properties of null", C, 0, 0, 0, 0, 0)
    ELSE IF ByteSize(G[src]) # ByteSize(G[dst])
    THEN Outcome("Buffer size mismatch", C, 0, 0, 0, 0, 0)
    ELSE IF G[src].kind = "cpu" /\ G[dst].kind = "cpu"
    THEN Outcome("ok", [C EXCEPT ![dst] = C[src]], 0, 0, 0, 0, 0)
    ELSE IF G[src].kind = "cpu" /\ G[dst].kind = "gpu"
    THEN \* queue.writeBuffer
         Outcome("ok", [C EXCEPT ![dst] = C[src]], 0, 0, 0, 0, 1)
    ELSE IF G[src].kind = "gpu" /\ G[dst].kind = "cpu"
    THEN \* staging buffer created, one submission, staging buffer destroyed
         Outcome("ok", [C EXCEPT ![dst] = C[src]], 0, 0, 0, 1, 1)
    ELSE \* GPUQueue has no method copyBufferToBuffer
         Outcome("TypeError: queue.copyBufferToBuffer is not a function",
                 C, 0, 0, 0, 0, 0)

\* copy(inBuf, outBuf)
copyRun(inBuf, outBuf, G, C) ==
    IF inBuf = outBuf THEN Outcome("ok", C, 0, 0, 0, 0, 0)
    ELSE LET compat == checkGridCompat(G[inBuf], <<G[outBuf]>>)
         IN IF compat # "ok" THEN Outcome(compat, C, 0, 0, 0, 0, 0)
            ELSE copyBuffer(inBuf, outBuf, G, C)

\* The local grid of map and map2.
tmpBufId == "tmpBuf"

\* map(fnName, inBuf, outBuf)
mapRun(fnName, inBuf, outBuf, G, C) ==
    LET compat == checkGridCompat(G[inBuf], <<G[outBuf]>>)
    IN
    IF compat # "ok" THEN Outcome(compat, C, 0, 0, 0, 0, 0)
    ELSE IF ~Has(mapPipelines, fnName)
    THEN Outcome("Map fn not registered", C, 0, 0, 0, 0, 0)
    ELSE
    LET aliased == outBuf = inBuf
        \* if (outBuf === inBuf) { tmpBuf = this.createLike(inBuf); outBuf = tmpBuf; }
        tmpBuf == IF aliased THEN tmpBufId ELSE Null
        outBuf2 == IF aliased THEN tmpBuf ELSE outBuf
        G2 == IF aliased THEN (tmpBufId :> createLike(G[inBuf], Null)) @@ G ELSE G
        C2 == IF aliased THEN (tmpBufId :> ZeroCells(G[inBuf])) @@ C ELSE C
        nTmp == IF aliased THEN 1 ELSE 0
        \* numsBuf and ofsBuf are created here and destroyed in the finally block
    IN
    IF fnName \notin DOMAIN mapPipelines
    THEN \* #dispatchKernel: the inherited value is no pipeline
         Outcome("TypeError: pipeline.getBindGroupLayout is not a function",
                 C2, nTmp, 0, 0, nTmp + 2, 0)
    ELSE IF G2[inBuf].buffer = Null \/ G2[outBuf2].buffer = Null
    THEN \* createBindGroup rejects a null buffer
         Outcome("TypeError: createBindGroup", C2, nTmp, 0, 0, nTmp + 2, 0)
    ELSE
    LET C3 == [C2 EXCEPT ![outBuf2] =
                   MapKernel(mapPipelines[fnName], G[inBuf], C2[inBuf], C2[outBuf2])]
    \* if (inBuf === outBuf) { await this.copy(tmpBuf, inBuf); this.destroy(tmpBuf); }
        d == Dispatch(mapPipelines[fnName].entryPoint, Nums(G[inBuf], 0))
    IN
    IF inBuf = outBuf2
    THEN LET c == copyRun(tmpBuf, inBuf, G2, C3)
         IN IF c.error # "ok"
            THEN Submitted(Outcome(c.error, c.cells, nTmp, 0, 0, nTmp + 2 + c.created,
                                   1 + c.queued), d)
            ELSE Submitted(Outcome("ok", c.cells, nTmp - 1, 0, 0, nTmp + 2 + c.created,
                                   1 + c.queued), d)
    ELSE Submitted(Outcome("ok", C3, nTmp, 0, 0, nTmp + 2, 1), d)

\* map2(fnName, inBuf1, inBuf2, outBuf)
map2Run(fnName, inBuf1, inBuf2, outBuf, G, C) ==
    LET compat == checkGridCompat(G[inBuf1], <<G[inBuf2], G[outBuf]>>)
    IN
    IF compat # "ok" THEN Outcome(compat, C, 0, 0, 0, 0, 0)
    ELSE IF ~Has(map2Pipelines, fnName)
    THEN Outcome("Map2 fn not registered", C, 0, 0, 0, 0, 0)
    ELSE
    LET aliased == outBuf = inBuf1 \/ outBuf = inBuf2
        tmpBuf == IF aliased THEN tmpBufId ELSE Null
        outBuf2 == IF aliased THEN tmpBuf ELSE outBuf
        like == IF outBuf = inBuf1 THEN G[inBuf1] ELSE G[inBuf2]
        G2 == IF aliased THEN (tmpBufId :> createLike(like, Null)) @@ G ELSE G
        C2 == IF aliased THEN (tmpBufId :> ZeroCells(like)) @@ C ELSE C
        nTmp == IF aliased THEN 1 ELSE 0
    IN
    IF fnName \notin DOMAIN map2Pipelines
    THEN Outcome("TypeError: pipeline.getBindGroupLayout is not a function",
                 C2, nTmp, 0, 0, nTmp + 2, 0)
    ELSE IF G2[inBuf1].buffer = Null \/ G2[inBuf2].buffer = Null \/ G2[outBuf2].buffer = Null
    THEN Outcome("TypeError: createBindGroup", C2, nTmp, 0, 0, nTmp + 2, 0)
    ELSE
    LET C3 == [C2 EXCEPT ![outBuf2] =
                   Map2Kernel(map2Pipelines[fnName], G[inBuf1], C2[inBuf1], C2[inBuf2],
                              C2[outBuf2])]
        \* if (inBuf1 === outBuf) {...} else if (inBuf2 === outBuf) {...}
        back == IF inBuf1 = outBuf2 THEN inBuf1
                ELSE IF inBuf2 = outBuf2 THEN inBuf2 ELSE Null
        d == Dispatch(map2Pipelines[fnName].entryPoint, Nums(G[inBuf1], 0))
    IN
    IF back # Null
    THEN LET c == copyRun(tmpBuf, back, G2, C3)
         IN IF c.error # "ok"
            THEN Submitted(Outcome(c.error, c.cells, nTmp, 0, 0, nTmp + 2 + c.created,
                                   1 + c.queued), d)
            ELSE Submitted(Outcome("ok", c.cells, nTmp - 1, 0, 0, nTmp + 2 + c.created,
                                   1 + c.queued), d)
    ELSE Submitted(Outcome("ok", C3, nTmp, 0, 0, nTmp + 2, 1), d)

\* reduce(fnName, inBuf).  The two temporary grids are created, the copy into
\* tempBufs[0] is started and not awaited, and the first createUniformBuffer
\* creates its buffer and calls initFn, which reads grid.numX: reduce declares
\* no grid and the module has none, so the read throws a ReferenceError before
\* the try block is entered.  Nothing after that line runs.
reduceRun(fnName, inBuf, G, C) ==
    IF ~Has(reducePipelines, fnName)
    THEN Outcome("Reduce fn not registered", C, 0, 0, 0, 0, 0)
    ELSE
    LET G2 == ("tempBufs0" :> createLike(G[inBuf], Null)) @@ G
        C2 == ("tempBufs0" :> ZeroCells(G[inBuf])) @@ C
        c == copyRun(inBuf, "tempBufs0", G2, C2)
    IN Outcome("ReferenceError: grid is not defined", c.cells, 2, 1, 0,
               3 + c.created, c.queued)

\* ------------------------------------------------------------ caller's calls
Call(op, fn, args, status, error, created, queued) ==
    [op |-> op, fn |-> fn, args |-> args, status |-> status, error |-> error,
     created |-> created, queued |-> queued, result |-> Null, dispatches |-> <<>>]

\* The state after a call with outcome r: the caller's grids keep what r left in
\* them, the buffers r left alive are counted, and lastCall records the call.
Finish(op, fn, args, r) ==
    /\ cells' = [g \in DOMAIN cells |-> r.cells[g]]
    /\ live' = [live EXCEPT !["buf-storage"] = @ + r.storage,
                            !["buf-uniform"] = @ + r.uniform,
                            !["buf-for-cpu-read"] = @ + r.cpuRead]
    /\ lastCall' = [Call(op, fn, args, IF r.error = "ok" THEN "ok" ELSE "error",
                         r.error, r.created, r.queued)
                      EXCEPT !.result = r.result, !.dispatches = r.dispatches]
    /\ UNCHANGED <<grid, registry, dfVars>>

\* Names a caller passes to map, map2 and reduce: the names registered in the
\* table, and two that are never registered.
Unregistered == "nope"
Inherited == "toString"
DispatchNames(table) == DOMAIN table \cup {Unregistered, Inherited}

map(fnName, inBuf, outBuf) ==
    /\ CanCall
    /\ inBuf \in GpuGrids /\ outBuf \in GpuGrids
    /\ fnName \in DOMAIN mapPipelines =>
          /\ mapPipelines[fnName].inType = grid[inBuf].type
          /\ mapPipelines[fnName].outType = grid[outBuf].type
    /\ Finish("map", fnName, <<inBuf, outBuf>>,
              mapRun(fnName, inBuf, outBuf, grid, cells))

map2(fnName, inBuf1, inBuf2, outBuf) ==
    /\ CanCall
    /\ inBuf1 \in GpuGrids /\ inBuf2 \in GpuGrids /\ outBuf \in GpuGrids
    /\ fnName \in DOMAIN map2Pipelines =>
          /\ map2Pipelines[fnName].inType1 = grid[inBuf1].type
          /\ map2Pipelines[fnName].inType2 = grid[inBuf2].type
          /\ map2Pipelines[fnName].outType = grid[outBuf].type
    /\ Finish("map2", fnName, <<inBuf1, inBuf2, outBuf>>,
              map2Run(fnName, inBuf1, inBuf2, outBuf, grid, cells))

copy(inBuf, outBuf) ==
    /\ CanCall
    /\ Finish("copy", "", <<inBuf, outBuf>>, copyRun(inBuf, outBuf, grid, cells))

reduce(fnName, inBuf) ==
    /\ CanCall
    /\ inBuf \in GpuGrids
    /\ fnName \in DOMAIN reducePipelines =>
          reducePipelines[fnName].valType = grid[inBuf].type
    /\ Finish("reduce", fnName, <<inBuf>>, reduceRun(fnName, inBuf, grid, cells))

\* The slots of vs_out that thread index of a map or map2 kernel stores to:
\* none when index >= arrayLength(&vs_in), its own otherwise.
MapWrites(index, vsIn) == IF index >= Len(vsIn) THEN {} ELSE {index}

\* The slots of df that thread ix of the jump flood kernel stores to: none
\* when ix >= arrayLength(&df) or when its entry is a seed's, its own otherwise.
JumpFloodWrites(ix, df) ==
    IF ix >= Len(df) THEN {} ELSE IF df[ix + 1].w = 0 THEN {} ELSE {ix}

\* The store of the reduce kernel without the test lid == 0.
ReduceWritesEveryThread(gid) == {gid \div wgSize}

\* The slots of vs_out that thread gid of the reduce kernel stores to:
\* gid / wgSize when lid == 0.
ReduceWrites(gid) == IF gid % wgSize = 0 THEN {gid \div wgSize} ELSE {}

\* The reduce kernel's loop over stride on the workgroup's array acc
\* (indices 0..wgSize-1): after each barrier, thread lid < stride stores the
\* snippet's value of acc[lid] and acc[lid + stride] in acc[lid].
RECURSIVE WgReduce(_, _, _)
WgReduce(snippet, acc, stride) ==
    IF stride = 0 THEN acc
    ELSE WgReduce(snippet,
                  [lid \in 0..(wgSize - 1) |->
                      IF lid < stride
                      THEN EvalReduceSnippet(snippet, acc[lid], acc[lid + stride])
                      ELSE acc[lid]],
                  stride \div 2)

\* The reduce kernel dispatched for numThreads executions: thread gid takes
\* vs_in[gid] when gid < arrayLength(&vs_in) and initVal otherwise, and thread
\* 0 of each workgroup stores the workgroup's value in vs_out[gid / wgSize].
ReduceKernel(pipeline, vsIn, vsOut, numThreads) ==
    [o \in 1..Len(vsOut) |->
        IF (o - 1) * wgSize \in DispatchThreads(numThreads)
        THEN WgReduce(pipeline.snippet,
                      [lid \in 0..(wgSize - 1) |->
                          IF (o - 1) * wgSize + lid < Len(vsIn)
                          THEN vsIn[(o - 1) * wgSize + lid + 1]
                          ELSE InitValOf(pipeline.initVal)],
                      wgSize \div 2)[0]
        ELSE vsOut[o]]

\* The loop of reduce: while numElems > 1, the kernel is dispatched from
\* tempBufs[activeBufIx] to tempBufs[1 - activeBufIx] for numElems executions,
\* the buffers swap and numElems becomes ceil(numElems / wgSize).  The value
\* is the sequence of the dispatches, each with its numElems, its input buffer
\* and its output buffer before and after.
RECURSIVE reduceRounds(_, _, _, _)
reduceRounds(pipeline, tempBufs, activeBufIx, numElems) ==
    IF numElems <= 1 THEN <<>>
    ELSE LET out == ReduceKernel(pipeline, tempBufs[activeBufIx],
                                 tempBufs[1 - activeBufIx], numElems)
         IN <<[entryPoint |-> pipeline.entryPoint, numElems |-> numElems,
               vsIn |-> tempBufs[activeBufIx],
               before |-> tempBufs[1 - activeBufIx], vsOut |-> out]>>
            \o reduceRounds(pipeline, [tempBufs EXCEPT ![1 - activeBufIx] = out],
                            1 - activeBufIx, (numElems + wgSize - 1) \div wgSize)

\* The dispatches that reduce(fnName, inBuf) encodes once tempBufs[0] holds
\* inBuf's cells and tempBufs[1] is new: the kernel and the loop, applied.
reduceDispatches(fnName, inBuf) ==
    /\ CanCall
    /\ inBuf \in GpuGrids
    /\ fnName \in DOMAIN reducePipelines
    /\ reducePipelines[fnName].valType = grid[inBuf].type
    /\ lastCall' =
          [Call("reduceDispatches", fnName, <<inBuf>>, "ok", "ok", 0, 0)
             EXCEPT !.dispatches =
                reduceRounds(reducePipelines[fnName],
                             [k \in {0, 1} |-> IF k = 0 THEN cells[inBuf]
                                               ELSE ZeroCells(grid[inBuf])],
                             0, NumCells(grid[inBuf]))]
    /\ UNCHANGED <<grid, cells, registry, live, dfVars>>

\* The fill kernel on a buffer of u32 cells: thread index writes 1 where the
\* x coordinate of decompose_ix(index) * res + ofs is below 10.
FillKernel(g, vsOut) ==
    [i \in 1..Len(vsOut) |->
        IF (i - 1) \in DispatchThreads(NumCells(g))
           /\ cell_center(g, decompose_ix(g, i - 1))[1] < 10
        THEN 1
        ELSE vsOut[i]]

\* GpuKernels.fill(shape, buf, boundary).  numsBuf and ofsBuf are GPUBuffers;
\* the finally block passes them to this.destroy, which reads numsBuf.buffer
\* (undefined) and throws: neither uniform buffer is destroyed, and the
\* TypeError replaces whatever the try block threw.
fillRun(buf, G, C) ==
    IF G[buf].buffer = Null
    THEN Outcome("TypeError: Cannot read properties of undefined (reading 'destroy')",
                 C, 0, 2, 0, 2, 0)
    ELSE Submitted(
            Outcome("TypeError: Cannot read properties of undefined (reading 'destroy')",
                    [C EXCEPT ![buf] = FillKernel(G[buf], C[buf])], 0, 2, 0, 2, 1),
            Dispatch("fill", Nums(G[buf], 0)))

GpuKernels_fill(shape, buf, boundary) ==
    /\ CanCall
    /\ buf \in GpuGrids
    /\ grid[buf].type = "u32"
    /\ Finish("GpuKernels.fill", "", <<buf, boundary>>, fillRun(buf, grid, cells))

\* destroy(buf): buf.buffer.destroy(); buf.buffer = null.  On a grid without
\* a buffer (destroyed before, or a host grid) the first statement throws.
destroy(buf) ==
    /\ CanCall
    /\ IF grid[buf].kind = "gpu" /\ grid[buf].buffer # Null
       THEN /\ grid' = [grid EXCEPT ![buf].buffer = Null]
            /\ live' = [live EXCEPT !["buf-storage"] = @ - 1]
            /\ lastCall' = Call("destroy", "", <<buf>>, "ok", "ok", 0, 0)
       ELSE /\ lastCall' = Call("destroy", "", <<buf>>, "error",
                                "TypeError: Cannot read properties of null", 0, 0)
            /\ UNCHANGED <<grid, live>>
    /\ UNCHANGED <<cells, registry, dfVars>>

\* boundOfAxis(dir, inBuf, boundary): the first statement awaits
\* reduce("min_ignore_invalid", inBuf), whose rejection ends the call.
boundOfAxis(dir, inBuf, boundary) ==
    /\ CanCall
    /\ inBuf \in GpuGrids
    /\ Finish("boundOfAxis", boundary, <<inBuf>>,
              reduceRun("min_ignore_invalid", inBuf, grid, cells))

\* ----------------------------------------------------------------- distField
\* Math.ceil(Math.log2(n)) for an integer n >= 1.
CeilLog2(n) == CHOOSE p \in 0..n : 2^p >= n /\ (p = 0 \/ 2^(p - 1) < n)

Max3(a, b, c) ==
    IF a >= b /\ a >= c THEN a ELSE IF b >= c THEN b ELSE c

\* numPass of distField for the grid g.
NumPass(g) == CeilLog2(Max3(g.numX, g.numY, g.numZ))

\* step with the passes' steps in ascending order.
StepOfAscending(g, pass) == 2^pass

\* step of distField in the pass numbered pass.
StepOf(g, pass) == 2^(NumPass(g) - pass - 1)

\* The local grid df of distField.
dfId == "df"

\* jump_flood: the array offsets.
offsets ==
    << <<-1, 0, 0>>, <<1, 0, 0>>, <<0, -1, 0>>, <<0, 1, 0>>, <<0, 0, -1>>, <<0, 0, 1>> >>

\* jump_flood: nix3 for entry i of offsets and nums.w = step.
NeighbourOf(ix3, i, step) == [k \in 1..3 |-> ix3[k] + offsets[i][k] * step]

\* jump_flood: the neighbour is within the grid.
InBound(g, nix3) ==
    /\ nix3[1] >= 0 /\ nix3[2] >= 0 /\ nix3[3] >= 0
    /\ nix3[1] < g.numX /\ nix3[2] < g.numY /\ nix3[3] < g.numZ

\* WGSL distance(a, b), as its square.
distance(a, b) ==
    (a[1] - b[1]) * (a[1] - b[1]) + (a[2] - b[2]) * (a[2] - b[2])
      + (a[3] - b[3]) * (a[3] - b[3])

\* VisitNeighbour without the test that skips an invalid neighbour.
VisitNeighbourNoInvalidTest(sd, nsd, p) ==
    LET nd == distance(nsd.xyz, p)
    IN IF sd.w < 0 \/ nd < sd.w THEN vec4f(nsd.xyz, nd) ELSE sd

\* jump_flood: one iteration of the loop, with the neighbour's entry nsd read.
VisitNeighbour(sd, nsd, p) ==
    IF nsd.w < 0 THEN sd
    ELSE LET nd == distance(nsd.xyz, p)
         IN IF sd.w < 0 \/ nd < sd.w THEN vec4f(nsd.xyz, nd) ELSE sd

\* The state of the threads when a jump flood pass is dispatched on buffer buf:
\* no thread has visited a neighbour, and each thread's sd is its own entry,
\* which no other thread writes.
StartPass(buf) ==
    /\ dfpc' = "pass"
    /\ tk' = [i \in 1..Len(buf) |-> 1]
    /\ tsd' = buf

distField(inSeedBuf, outDistBuf) ==
    /\ CanCall
    /\ inSeedBuf \in GpuGrids /\ outDistBuf \in GpuGrids
    /\ grid[inSeedBuf].type = "u32" /\ grid[outDistBuf].type = "f32"
    /\ LET compat == checkGridCompat(grid[inSeedBuf], <<grid[outDistBuf]>>)
           df == createLike(grid[inSeedBuf], "vec4f")
           m == mapRun("df_init", inSeedBuf, dfId, (dfId :> df) @@ grid,
                       (dfId :> ZeroCells(df)) @@ cells)
       IN
       IF compat # "ok"
       THEN Finish("distField", "", <<inSeedBuf, outDistBuf>>,
                   Outcome(compat, cells, 0, 0, 0, 0, 0))
       ELSE IF m.error # "ok"
       THEN Finish("distField", "", <<inSeedBuf, outDistBuf>>,
                   Outcome(m.error, m.cells, 1 + m.storage, 0, 0, 1 + m.created,
                           m.queued))
       ELSE
       /\ dfArgs' = <<inSeedBuf, outDistBuf>>
       /\ dfPass' = 0
       /\ dfBuf' = m.cells[dfId]
       /\ IF NumPass(grid[inSeedBuf]) = 0
          THEN /\ dfpc' = "final"
               /\ tk' = <<>>
               /\ tsd' = <<>>
               /\ live' = [live EXCEPT !["buf-storage"] = @ + 1]
               /\ lastCall' = [Call("distField", "", <<inSeedBuf, outDistBuf>>,
                                    "pending", "ok", 1 + m.created, m.queued)
                                  EXCEPT !.dispatches = m.dispatches]
          ELSE /\ StartPass(m.cells[dfId])
               /\ live' = [live EXCEPT !["buf-storage"] = @ + 1,
                                       !["buf-uniform"] = @ + 2]
               /\ lastCall' = [Call("distField", "", <<inSeedBuf, outDistBuf>>,
                                    "pending", "ok", 3 + m.created, 1 + m.queued)
                                  EXCEPT !.dispatches =
                                     Append(m.dispatches,
                                            Dispatch("jump_flood",
                                                     Nums(grid[inSeedBuf],
                                                          StepOf(grid[inSeedBuf], 0))))]
       /\ UNCHANGED <<grid, cells, registry>>

\* The entries made of the components of old and of new.
Mixes(old, new) ==
    {vec4f(<<x, y, z>>, w) :
        x \in {old.xyz[1], new.xyz[1]}, y \in {old.xyz[2], new.xyz[2]},
        z \in {old.xyz[3], new.xyz[3]}, w \in {old.w, new.w}}

\* What the load df[nix] may yield.  The kernel loads a neighbour's entry and
\* stores its own in the same buffer with no synchronisation: a load that meets
\* the neighbour's store in progress yields each of the four components from
\* before the store or from after it.
ReadEntry(nix) ==
    IF tk[nix + 1] = 7 THEN Mixes(dfBuf[nix + 1], tsd[nix + 1]) ELSE {dfBuf[nix + 1]}

\* One step of thread ix of the jump_flood kernel: it visits its next neighbour
\* within the grid; after the last one it begins the store of sd to df[ix]
\* (position 7) and then completes it (position 8).  A thread whose entry is
\* a seed (sd.w == 0) returns without storing.
jump_flood(ix) ==
    /\ dfpc = "pass"
    /\ ix < Len(dfBuf)
    /\ tk[ix + 1] <= 7
    /\ LET g == grid[dfArgs[1]]
           ix3 == decompose_ix(g, ix)
           p == cell_center(g, ix3)
           \* nums.w of the dispatch in flight
           step == lastCall.dispatches[Len(lastCall.dispatches)].nums[4]
           sd == tsd[ix + 1]
           todo == {i \in tk[ix + 1]..6 : InBound(g, NeighbourOf(ix3, i, step))}
           i == CHOOSE n \in todo : \A n2 \in todo : n <= n2
           rest == {n \in todo : n > i}
       IN
       IF tk[ix + 1] = 7
       THEN /\ tk' = [tk EXCEPT ![ix + 1] = 8]
            /\ dfBuf' = [dfBuf EXCEPT ![ix + 1] = sd]
            /\ UNCHANGED tsd
       ELSE IF tk[ix + 1] = 1 /\ sd.w = 0
       THEN /\ tk' = [tk EXCEPT ![ix + 1] = 8]
            /\ UNCHANGED <<dfBuf, tsd>>
       ELSE IF todo = {}
       THEN /\ tk' = [tk EXCEPT ![ix + 1] = 7]
            /\ UNCHANGED <<dfBuf, tsd>>
       ELSE /\ \E nsd \in ReadEntry(compose_ix(g, NeighbourOf(ix3, i, step))) :
                  tsd' = [tsd EXCEPT ![ix + 1] = VisitNeighbour(sd, nsd, p)]
            /\ tk' = [tk EXCEPT ![ix + 1] =
                         IF rest = {} THEN 7
                         ELSE CHOOSE n \in rest : \A n2 \in rest : n <= n2]
            /\ UNCHANGED dfBuf
    /\ UNCHANGED <<grid, cells, registry, live, lastCall, dfpc, dfArgs, dfPass>>

\* await onSubmittedWorkDone() of a pass returned: its uniform buffers are
\* destroyed and the loop goes on with the next pass, or ends.
distFieldNextPass ==
    /\ dfpc = "pass"
    /\ \A i \in 1..Len(tk) : tk[i] = 8
    /\ dfPass' = dfPass + 1
    /\ IF dfPass + 1 < NumPass(grid[dfArgs[1]])
       THEN /\ StartPass(dfBuf)
            /\ lastCall' = [lastCall EXCEPT
                               !.created = @ + 2, !.queued = @ + 1,
                               !.dispatches =
                                  Append(@, Dispatch("jump_flood",
                                                     Nums(grid[dfArgs[1]],
                                                          StepOf(grid[dfArgs[1]],
                                                                 dfPass + 1))))]
            /\ UNCHANGED live
       ELSE /\ dfpc' = "final"
            /\ tk' = <<>>
            /\ tsd' = <<>>
            /\ live' = [live EXCEPT !["buf-uniform"] = @ - 2]
            /\ UNCHANGED lastCall
    /\ UNCHANGED <<grid, cells, registry, dfArgs, dfBuf>>

\* The end of distField: map("df_to_dist", df, outDistBuf) and destroy(df).
distFieldFinish ==
    /\ dfpc = "final"
    /\ LET df == createLike(grid[dfArgs[1]], "vec4f")
           m == mapRun("df_to_dist", dfId, dfArgs[2], (dfId :> df) @@ grid,
                       (dfId :> dfBuf) @@ cells)
       IN
       /\ cells' = [g \in DOMAIN cells |-> m.cells[g]]
       /\ live' = [live EXCEPT !["buf-storage"] =
                       @ + m.storage - (IF m.error = "ok" THEN 1 ELSE 0)]
       /\ lastCall' = [lastCall EXCEPT !.status = IF m.error = "ok" THEN "ok" ELSE "error",
                                       !.error = m.error,
                                       !.created = @ + m.created,
                                       !.queued = @ + m.queued,
                                       !.dispatches = @ \o m.dispatches]
    /\ dfpc' = "idle"
    /\ dfArgs' = <<>>
    /\ dfPass' = 0
    /\ dfBuf' = <<>>
    /\ UNCHANGED <<grid, registry, tk, tsd>>

\* -------------------------------------------------------------- registration
\* A registration call changes nothing but its table and lastCall.
Registered(op, name, error) ==
    /\ lastCall' = Call(op, name, <<>>, IF error = "ok" THEN "ok" ELSE "error",
                        error, 0, 0)
    /\ UNCHANGED <<grid, cells, live, dfVars>>

\* registerMapFn without the test for a name already registered.
registerMapFnOverwrite(name, inType, outType, snippet) ==
    /\ dfpc = "idle"
    /\ IF ~checkAllowedType(inType) \/ ~checkAllowedType(outType)
       THEN /\ Registered("registerMapFn", name, "Invalid type")
            /\ UNCHANGED registry
       ELSE /\ Registered("registerMapFn", name, "ok")
            /\ mapPipelines' =
                  (name :> MapPipeline(name, inType, outType, snippet)) @@ mapPipelines
            /\ UNCHANGED <<map2Pipelines, reducePipelines>>

registerMapFn(name, inType, outType, snippet) ==
    /\ dfpc = "idle"
    /\ IF Has(mapPipelines, name)
       THEN /\ Registered("registerMapFn", name, "Map fn already registered")
            /\ UNCHANGED registry
       ELSE IF ~checkAllowedType(inType) \/ ~checkAllowedType(outType)
       THEN /\ Registered("registerMapFn", name, "Invalid type")
            /\ UNCHANGED registry
       ELSE /\ Registered("registerMapFn", name, "ok")
            /\ mapPipelines' =
                  (name :> MapPipeline(name, inType, outType, snippet)) @@ mapPipelines
            /\ UNCHANGED <<map2Pipelines, reducePipelines>>

registerMap2Fn(name, inType1, inType2, outType, snippet) ==
    /\ dfpc = "idle"
    /\ IF Has(map2Pipelines, name)
       THEN /\ Registered("registerMap2Fn", name, "Map2 fn already registered")
            /\ UNCHANGED registry
       ELSE IF ~checkAllowedType(inType1) \/ ~checkAllowedType(inType2)
               \/ ~checkAllowedType(outType)
       THEN /\ Registered("registerMap2Fn", name, "Invalid type")
            /\ UNCHANGED registry
       ELSE /\ Registered("registerMap2Fn", name, "ok")
            /\ map2Pipelines' =
                  (name :> Map2Pipeline(name, inType1, inType2, outType, snippet))
                      @@ map2Pipelines
            /\ UNCHANGED <<mapPipelines, reducePipelines>>

registerReduceFn(name, valType, initVal, snippet) ==
    /\ dfpc = "idle"
    /\ IF Has(reducePipelines, name)
       THEN /\ Registered("registerReduceFn", name, "Reduce fn already registered")
            /\ UNCHANGED registry
       ELSE /\ Registered("registerReduceFn", name, "ok")
            /\ reducePipelines' =
                  (name :> ReducePipeline(name, valType, initVal, snippet))
                      @@ reducePipelines
            /\ UNCHANGED <<mapPipelines, map2Pipelines>>

\* The tables when the constructor of GpuKernels returns.
ConstructorMapPipelines ==
    ("df_init" :> MapPipeline("df_init", "u32", "vec4f", df_init))
    @@ ("df_to_dist" :> MapPipeline("df_to_dist", "vec4f", "f32", df_to_dist))
    @@ ("project_to_axis" :> MapPipeline("project_to_axis", "u32", "f32", project_to_axis))

ConstructorReducePipelines ==
    ("min_ignore_invalid" :>
        ReducePipeline("min_ignore_invalid", "f32", "1e5", min_ignore_invalid))
    @@ ("max_ignore_invalid" :>
        ReducePipeline("max_ignore_invalid", "f32", "1e5", max_ignore_invalid))

\* -------------------------------------------------------------------- shapes
\* Vector3: dot and sub.
dot(a, b) == a[1] * b[1] + a[2] * b[2] + a[3] * b[3]
sub(a, b) == <<a[1] - b[1], a[2] - b[2], a[3] - b[3]>>

createCylinderShape(p, n, r, h) == [type |-> "cylinder", p |-> p, n |-> n, r |-> r, h |-> h]

createELHShape(p, q, n, r, h) ==
    [type |-> "ELH", p |-> p, q |-> q, n |-> n, r |-> r, h |-> h]

createBoxShape(center, halfVec0, halfVec1, halfVec2) ==
    [type |-> "box", center |-> center, halfVec0 |-> halfVec0, halfVec1 |-> halfVec1,
     halfVec2 |-> halfVec2]

\* What createSdf(shape) throws, or "ok".  n.length() !== 1 is decided on
\* n.n: the square root of an integer is 1 only for 1.
createSdfError(shape) ==
    IF shape.type = "cylinder"
    THEN IF dot(shape.n, shape.n) # 1 THEN "Cylinder direction not normalized" ELSE "ok"
    ELSE IF shape.type = "ELH"
    THEN IF dot(shape.n, shape.n) # 1 THEN "ELH direction not normalized"
         ELSE IF dot(sub(shape.q, shape.p), shape.n) # 0 THEN "Invalid extrusion normal"
         ELSE "ok"
    ELSE IF shape.type = "box"
    THEN IF dot(shape.halfVec0, shape.halfVec1) # 0 \/ dot(shape.halfVec0, shape.halfVec2) # 0
            \/ dot(shape.halfVec1, shape.halfVec2) # 0
         THEN "Half vectors must be perpendicular to each other" ELSE "ok"
    ELSE "Unknown shape type"

\* Vector3.length() and normalize() of a vector along one axis (or zero): the
\* half vectors of the boxes are such vectors, and both are exact on them.
abs(x) == IF x < 0 THEN -x ELSE x
length(v) == abs(v[1]) + abs(v[2]) + abs(v[3])
normalize(v) == IF length(v) = 0 THEN v ELSE [k \in 1..3 |-> v[k] \div length(v)]

\* A value of an SDF is kept as neg + sqrt(sq), with neg <= 0 <= sq integers.
\* createSdfBox: dInside = min(0, max(dp.x, dp.y, dp.z)) is neg and dOutside,
\* the length of (max(0, dp.x), max(0, dp.y), max(0, dp.z)), is sqrt(sq).
\* createSdfBox: dInside + dOutside of the vector dp.
BoxDistance(dp) ==
    [neg |-> min(0, Max3(dp[1], dp[2], dp[3])),
     sq |-> max(0, dp[1]) * max(0, dp[1]) + max(0, dp[2]) * max(0, dp[2])
            + max(0, dp[3]) * max(0, dp[3])]

\* createSdfBox: dp, of d = p - center.
BoxDp(d, halfVec0, halfVec1, halfVec2) ==
    <<abs(dot(d, normalize(halfVec0))) - length(halfVec0),
      abs(dot(d, normalize(halfVec1))) - length(halfVec1),
      abs(dot(d, normalize(halfVec2))) - length(halfVec2)>>

createSdfBox(center, halfVec0, halfVec1, halfVec2, p) ==
    BoxDistance(BoxDp(sub(p, center), halfVec0, halfVec1, halfVec2))

\* The square root of a perfect square.
Sqrt(s) == CHOOSE k \in 0..s : k * k = s
PerfectSquare(s) == \E k \in 0..s : k * k = s

\* Vector3.projectOnPlane(n), n a unit vector: v - n * (v . n).
projectOnPlane(v, n) ==
    <<v[1] - n[1] * dot(v, n), v[2] - n[2] * dot(v, n), v[3] - n[3] * dot(v, n)>>

\* The last line of the sdf of createSdfCylinder and createSdfElh:
\* min(max(d1, d2), 0) is neg and hypot(max(d1, 0), max(d2, 0)) is sqrt(sq).
Combine(d1, d2) ==
    [neg |-> min(max(d1, d2), 0),
     sq |-> max(d1, 0) * max(d1, 0) + max(d2, 0) * max(d2, 0)]

\* createSdfCylinder with the interval [-h/2, h/2] in place of [0, h].
createSdfCylinderCentred(p, n, r, h, x) ==
    Combine(abs(dot(sub(x, p), n)) - h \div 2,
            Sqrt(dot(projectOnPlane(sub(x, p), n), projectOnPlane(sub(x, p), n))) - r)

\* createSdfCylinder(p, n, r, h)(x).  h is even, so that h * 0.5 is an integer,
\* and x is a point whose projection dx2 has an integer length.
createSdfCylinder(p, n, r, h, x) ==
    Combine(abs(dot(sub(x, p), n) - h \div 2) - h \div 2,
            Sqrt(dot(projectOnPlane(sub(x, p), n), projectOnPlane(sub(x, p), n))) - r)

\* createSdf(shape)(p), for a cylinder or a box that createSdf accepts.
createSdf(shape, p) ==
    IF shape.type = "cylinder"
    THEN createSdfCylinder(shape.p, shape.n, shape.r, shape.h, p)
    ELSE createSdfBox(shape.center, shape.halfVec0, shape.halfVec1, shape.halfVec2, p)

\* An offset is kept as the integer m of  m * halfDiag,  where
\* halfDiag = res * 0.5 * sqrt(3):  sdfValue <= offset, decided on the squares.
SdfLeq(v, m, res) ==
    IF v.sq > 0
    THEN m > 0 /\ 4 * v.sq <= 3 * m * m * res * res
    ELSE m >= 0 \/ 4 * v.neg * v.neg >= 3 * m * m * res * res

\* ----------------------------------------------------- traverseAllPointsInside
\* The blocks, in the order of the loops bz, by, bx.
AllBlocks(vg) ==
    LET nbx == vg.numX \div blockSize + 1
        nby == vg.numY \div blockSize + 1
        nbz == vg.numZ \div blockSize + 1
    IN [k \in 1..(nbx * nby * nbz) |->
          <<(k - 1) % nbx, ((k - 1) \div nbx) % nby, (k - 1) \div (nbx * nby)>>]

\* blockCenter
BlockCenter(vg, b) ==
    [k \in 1..3 |-> ((2 * b[k] + 1) * blockSize * vg.res) \div 2 + vg.ofs[k]]

\* The test on blocks without blockOffset.
BlockKeptNoBlockOffset(vg, shape, m, b) ==
    SdfLeq(createSdf(shape, BlockCenter(vg, b)), m, vg.res)

\* The test that pushes a block: sdf(blockCenter) <= blockOffset + offset, with
\* blockOffset = res * blockSize * 0.5 * sqrt(3) = blockSize * halfDiag.
BlockKept(vg, shape, m, b) == SdfLeq(createSdf(shape, BlockCenter(vg, b)), blockSize + m, vg.res)

\* The cells of block b without the tests iz >= numZ, iy >= numY, ix >= numX.
BlockCellsUnclipped(vg, b) ==
    [k \in 1..(blockSize * blockSize * blockSize) |->
          <<b[1] * blockSize + ((k - 1) % blockSize),
            b[2] * blockSize + (((k - 1) \div blockSize) % blockSize),
            b[3] * blockSize + ((k - 1) \div (blockSize * blockSize))>>]

\* The cells of block b with the loops nested dx, dy, dz.
BlockCellsXOutermost(vg, b) ==
    LET nx == max(0, min(blockSize, vg.numX - b[1] * blockSize))
        ny == max(0, min(blockSize, vg.numY - b[2] * blockSize))
        nz == max(0, min(blockSize, vg.numZ - b[3] * blockSize))
    IN [k \in 1..(nx * ny * nz) |->
          <<b[1] * blockSize + ((k - 1) \div (nz * ny)),
            b[2] * blockSize + (((k - 1) \div nz) % ny),
            b[3] * blockSize + ((k - 1) % nz)>>]

\* The cells of block b within the grid, in the order of the loops dz, dy, dx.
BlockCells(vg, b) ==
    LET nx == max(0, min(blockSize, vg.numX - b[1] * blockSize))
        ny == max(0, min(blockSize, vg.numY - b[2] * blockSize))
        nz == max(0, min(blockSize, vg.numZ - b[3] * blockSize))
    IN [k \in 1..(nx * ny * nz) |->
          <<b[1] * blockSize + ((k - 1) % nx),
            b[2] * blockSize + (((k - 1) \div nx) % ny),
            b[3] * blockSize + ((k - 1) \div (nx * ny))>>]

RECURSIVE Concat(_, _)
Concat(seqs, n) == IF n = 0 THEN <<>> ELSE Concat(seqs, n - 1) \o seqs[n]

\* The cells on which traverseAllPointsInside calls fn when fn never returns
\* true, in the order of the calls.
TraversedCells(vg, shape, m) ==
    LET Kept(b) == BlockKept(vg, shape, m, b)
        Inside(c) == SdfLeq(createSdf(shape, centerOf(vg, c)), m, vg.res)
        blocks == SelectSeq(AllBlocks(vg), Kept)
        perBlock == [i \in 1..Len(blocks) |-> SelectSeq(BlockCells(vg, blocks[i]), Inside)]
    IN Concat(perBlock, Len(perBlock))

\* traverseAllPointsInside(vg, sdf, offset, fn), sdf being createSdf(shape):
\* the value returned and the number of calls of fn made.  fn[c] tells whether
\* the callback returns true on cell c.
traverseAllPointsInsideNoStop(vg, shape, m, fn) ==
    LET cs == TraversedCells(vg, shape, m)
    IN [result |-> \E i \in 1..Len(cs) : fn[cs[i]], calls |-> Len(cs)]

traverseAllPointsInside(vg, shape, m, fn) ==
    LET cs == TraversedCells(vg, shape, m)
        hits == {i \in 1..Len(cs) : fn[cs[i]]}
    IN IF hits = {} THEN [result |-> FALSE, calls |-> Len(cs)]
       ELSE [result |-> TRUE, calls |-> CHOOSE i \in hits : \A j \in hits : i <= j]

\* ------------------------------------------------------------ VoxelGridCpu
\* The record of a call on a host grid or of a shape constructor: besides the
\* fields of Call, the shape, value and mode passed and the calls of pred made.
HostCall(op, args, error, shape, val, mode, calls, result) ==
    [op |-> op, fn |-> "", args |-> args,
     status |-> IF error = "ok" THEN "ok" ELSE "error", error |-> error,
     created |-> 0, queued |-> 0, result |-> result,
     shape |-> shape, val |-> val, mode |-> mode, calls |-> calls]

\* set(ix, iy, iz, val) on the typed array data of grid vg: a store at an index
\* outside the array is dropped.
set(vg, data, ix3, val) ==
    LET i == ix3[1] + ix3[2] * vg.numX + ix3[3] * vg.numX * vg.numY
    IN IF i >= 0 /\ i < Len(data) THEN [data EXCEPT ![i + 1] = val] ELSE data

\* get(ix, iy, iz)
get(vg, data, ix3) == data[ix3[1] + ix3[2] * vg.numX + ix3[3] * vg.numX * vg.numY + 1]

RECURSIVE SetEach(_, _, _, _, _)
SetEach(vg, data, cs, n, val) ==
    IF n = 0 THEN data ELSE set(vg, SetEach(vg, data, cs, n - 1, val), cs[n], val)

\* fillShape: the throw of the last else branch removed.
roundModeErrorNone(roundMode) == "ok"

\* fillShape: what the chain of tests of roundMode throws, or "ok".
roundModeError(roundMode) ==
    IF roundMode \in {"outside", "inside", "nearest"} THEN "ok" ELSE "Unknown round mode"

\* fillShape: offset with the signs of outside and inside exchanged.
OffsetOfSwapped(roundMode) ==
    IF roundMode = "outside" THEN -1 ELSE IF roundMode = "inside" THEN 1 ELSE 0

\* fillShape: offset, as the multiple of halfDiag.
OffsetOf(roundMode) ==
    IF roundMode = "outside" THEN 1 ELSE IF roundMode = "inside" THEN -1 ELSE 0

\* The caller's calls on host grids change neither the device nor the tables.
HostFrame == UNCHANGED <<live, registry, dfVars>>

\* vg.fillShape(shape, val, roundMode)
fillShape(vg, shape, val, roundMode) ==
    /\ dfpc = "idle"
    /\ grid[vg].kind = "cpu"
    /\ LET err == IF createSdfError(shape) # "ok" THEN createSdfError(shape)
                  ELSE roundModeError(roundMode)
           cs == TraversedCells(grid[vg], shape, OffsetOf(roundMode))
       IN /\ lastCall' = HostCall("fillShape", <<vg>>, err, shape, val, roundMode, 0, Null)
          /\ cells' = IF err # "ok" THEN cells
                      ELSE [cells EXCEPT ![vg] = SetEach(grid[vg], @, cs, Len(cs), val)]
    /\ UNCHANGED grid
    /\ HostFrame

\* vg.fill(val)
fill(vg, val) ==
    /\ dfpc = "idle"
    /\ grid[vg].kind = "cpu"
    /\ cells' = [cells EXCEPT ![vg] = [i \in DOMAIN @ |-> val]]
    /\ lastCall' = HostCall("fill", <<vg>>, "ok", Null, val, "", 0, Null)
    /\ UNCHANGED grid
    /\ HostFrame

\* vg.set(ix, iy, iz, val)
setCell(vg, ix3, val) ==
    /\ dfpc = "idle"
    /\ grid[vg].kind = "cpu"
    /\ cells' = [cells EXCEPT ![vg] = set(grid[vg], @, ix3, val)]
    /\ lastCall' = HostCall("set", <<vg>>, "ok", Null, val, "", 0, Null)
    /\ UNCHANGED grid
    /\ HostFrame

\* The grid object that clone returns.
cloneId == "c"

\* clone without the copy of the cells.
cloneNoData(vg) ==
    /\ dfpc = "idle"
    /\ grid[vg].kind = "cpu"
    /\ cloneId \notin DOMAIN grid
    /\ grid' = (cloneId :> VoxelGridCpu(grid[vg].res, grid[vg].numX, grid[vg].numY,
                                        grid[vg].numZ, grid[vg].ofs, grid[vg].type))
               @@ grid
    /\ cells' = (cloneId :> ZeroCells(grid[vg])) @@ cells
    /\ lastCall' = HostCall("clone", <<vg>>, "ok", Null, 0, "", 0, cloneId)
    /\ HostFrame

\* vg.clone(): a new VoxelGridCpu of the same arguments (its constructor clones
\* ofs and allocates a new array), and vg.data.set(this.data).
clone(vg) ==
    /\ dfpc = "idle"
    /\ grid[vg].kind = "cpu"
    /\ cloneId \notin DOMAIN grid
    /\ grid' = (cloneId :> VoxelGridCpu(grid[vg].res, grid[vg].numX, grid[vg].numY,
                                        grid[vg].numZ, grid[vg].ofs, grid[vg].type))
               @@ grid
    /\ cells' = (cloneId :> cells[vg]) @@ cells
    /\ lastCall' = HostCall("clone", <<vg>>, "ok", Null, 0, "", 0, cloneId)
    /\ HostFrame

\* The cells (ix, iy, iz) of vg.
CellsOf(vg) == (0..(vg.numX - 1)) \X (0..(vg.numY - 1)) \X (0..(vg.numZ - 1))

\* The predicates a caller passes: on the value of the cell in vg.
Pred(pred, vg, ix3) ==
    IF pred = "nonzero" THEN get(grid[vg], cells[vg], ix3) # 0
    ELSE get(grid[vg], cells[vg], ix3) = 0

\* everyPointInsideIs(vg, sdf, offset, pred) as a function: its value and the
\* calls of pred it makes.
everyPointInsideIsRun(vg, shape, m, pred) ==
    LET fn == [c \in CellsOf(grid[vg]) |-> ~Pred(pred, vg, c)]
        t == traverseAllPointsInside(grid[vg], shape, m, fn)
    IN [result |-> ~t.result, calls |-> t.calls]

\* anyPointInsideIs(vg, sdf, offset, pred) as a function.
anyPointInsideIsRun(vg, shape, m, pred) ==
    LET fn == [c \in CellsOf(grid[vg]) |-> Pred(pred, vg, c)]
    IN traverseAllPointsInside(grid[vg], shape, m, fn)

everyPointInsideIs(vg, shape, m, pred) ==
    /\ dfpc = "idle"
    /\ grid[vg].kind = "cpu"
    /\ createSdfError(shape) = "ok"
    /\ \E r \in {everyPointInsideIsRun(vg, shape, m, pred)} :
          lastCall' = HostCall("everyPointInsideIs", <<vg>>, "ok", shape, m, pred,
                               r.calls, r.result)
    /\ UNCHANGED <<grid, cells>>
    /\ HostFrame

anyPointInsideIs(vg, shape, m, pred) ==
    /\ dfpc = "idle"
    /\ grid[vg].kind = "cpu"
    /\ createSdfError(shape) = "ok"
    /\ \E r \in {anyPointInsideIsRun(vg, shape, m, pred)} :
          lastCall' = HostCall("anyPointInsideIs", <<vg>>, "ok", shape, m, pred,
                               r.calls, r.result)
    /\ UNCHANGED <<grid, cells>>
    /\ HostFrame

\* The caller evaluates createSdf(shape) at the point x.
sdf(shape, x) ==
    /\ dfpc = "idle"
    /\ lastCall' = HostCall("sdf", <<>>, createSdfError(shape), shape, x, "", 0,
                            IF createSdfError(shape) = "ok" THEN createSdf(shape, x)
                            ELSE Null)
    /\ UNCHANGED <<grid, cells>>
    /\ HostFrame

\* The caller constructs a shape: the constructors return the shape object.
newCylinderShape(p, n, r, h) ==
    /\ dfpc = "idle"
    /\ lastCall' = HostCall("createCylinderShape", <<>>, "ok",
                            createCylinderShape(p, n, r, h), 0, "", 0, Null)
    /\ UNCHANGED <<grid, cells>>
    /\ HostFrame

newELHShape(p, q, n, r, h) ==
    /\ dfpc = "idle"
    /\ lastCall' = HostCall("createELHShape", <<>>, "ok",
                            createELHShape(p, q, n, r, h), 0, "", 0, Null)
    /\ UNCHANGED <<grid, cells>>
    /\ HostFrame

newBoxShape(center, halfVec0, halfVec1, halfVec2) ==
    /\ dfpc = "idle"
    /\ lastCall' = HostCall("createBoxShape", <<>>, "ok",
                            createBoxShape(center, halfVec0, halfVec1, halfVec2),
                            0, "", 0, Null)
    /\ UNCHANGED <<grid, cells>>
    /\ HostFrame

\* --------------------------------------------------------------- the inputs
\* Grid shapes of at most n cells.
Dims(n) == {d \in (1..n) \X (1..n) \X (1..n) : d[1] * d[2] * d[3] <= n}

\* The resolution and the offset of the grids the caller works on.
BaseRes == {2}
BaseOfs == {Vec3(0, 0, 0)}

\* The shapes that differ from base in at most one field.
Variants(base) ==
    {base,
     [base EXCEPT !.numX = @ + 1], [base EXCEPT !.numY = @ + 1],
     [base EXCEPT !.numZ = @ + 1],
     [base EXCEPT !.ofs[1] = @ + 1], [base EXCEPT !.ofs[2] = @ + 1],
     [base EXCEPT !.ofs[3] = @ + 1],
     [base EXCEPT !.res = @ + 2]}

MapFns ==
    {<<"f32", "f32", SnippetNegate>>, <<"u32", "u32", SnippetMark>>,
     <<"i32", "u32", SnippetMark>>}
Map2Fns ==
    {<<"u32", "u32", "u32", SnippetAnd>>, <<"u32", "u32", "u32", SnippetOr>>,
     <<"u32", "bool", "u32", SnippetOr>>}
ReduceFns == {<<"f32", "1e9", SnippetMin>>, <<"f32", "-1e9", SnippetMax>>}

Directions == {Vec3(1, 0, 0), Vec3(0, 1, 0)}
Boundaries == {"in", "out", "nearest"}

\* ---------------------------------------------------------- specifications
IdleDf ==
    /\ dfpc = "idle"
    /\ dfArgs = <<>>
    /\ dfPass = 0
    /\ dfBuf = <<>>
    /\ tk = <<>>
    /\ tsd = <<>>

\* The caller's grids: a device grid a (u32) of shape d whose cells the caller
\* has uploaded, and a zero device grid b (f32) of shape shapeB.
Grids(a, b) ==
    /\ grid = [g \in {"a", "b"} |-> IF g = "a" THEN a ELSE b]
    /\ \E data \in [1..NumCells(a) -> {0, 1}] :
         cells = [g \in {"a", "b"} |-> IF g = "a" THEN data ELSE ZeroCells(b)]
    /\ live = [l \in BufLabels |-> IF l = "buf-storage" THEN 2 ELSE 0]
    /\ lastCall = Call("constructor", "", <<>>, "ok", "ok", 0, 0)
    /\ IdleDf

\* Spec: b's shape may differ from a's in one field; the caller has registered
\* the map functions negate and mark and the map2 functions and, add and mask.
Init ==
    /\ \E d \in Dims(MaxCells), res \in BaseRes, ofs \in BaseOfs :
         \E b \in Variants(VoxelGridGpu(res, d[1], d[2], d[3], ofs, "f32")) :
            Grids(VoxelGridGpu(res, d[1], d[2], d[3], ofs, "u32"), b)
    /\ mapPipelines =
          ("negate" :> MapPipeline("negate", "f32", "f32", SnippetNegate))
          @@ ("mark" :> MapPipeline("mark", "u32", "u32", SnippetMark))
          @@ ConstructorMapPipelines
    /\ map2Pipelines =
          ("and" :> Map2Pipeline("and", "u32", "u32", "u32", SnippetAnd))
          @@ ("add" :> Map2Pipeline("add", "u32", "u32", "f32", SnippetAdd))
          @@ ("mask" :> Map2Pipeline("mask", "u32", "f32", "f32", SnippetMask))
    /\ reducePipelines = ConstructorReducePipelines

Next ==
    \/ \E fn \in DispatchNames(mapPipelines), i, o \in DOMAIN grid :
          map(fn, i, o)
    \/ \E fn \in DispatchNames(map2Pipelines), i1, i2, o \in DOMAIN grid :
          map2(fn, i1, i2, o)
    \/ \E i, o \in DOMAIN grid : copy(i, o)
    \/ \E fn \in DispatchNames(reducePipelines), i \in DOMAIN grid :
          reduce(fn, i)
    \/ \E dir \in Directions, i \in DOMAIN grid, b \in Boundaries :
          boundOfAxis(dir, i, b)
    \/ \E i, o \in DOMAIN grid : distField(i, o)
    \/ \E ix \in 0..(wgSize - 1) : jump_flood(ix)
    \/ distFieldNextPass
    \/ distFieldFinish

Spec == Init /\ [][Next]_vars

\* SpecDF: distField alone, on larger grids of one shape.
InitDF ==
    /\ \E d \in Dims(MaxCellsDF), res \in BaseRes, ofs \in BaseOfs :
          Grids(VoxelGridGpu(res, d[1], d[2], d[3], ofs, "u32"),
                VoxelGridGpu(res, d[1], d[2], d[3], ofs, "f32"))
    /\ mapPipelines = ConstructorMapPipelines
    /\ map2Pipelines = <<>>
    /\ reducePipelines = ConstructorReducePipelines

NextDF ==
    \/ \E i, o \in DOMAIN grid : distField(i, o)
    \/ \E ix \in 0..(wgSize - 1) : jump_flood(ix)
    \/ distFieldNextPass
    \/ distFieldFinish

SpecDF == InitDF /\ [][NextDF]_vars

\* SpecCopy: copy between host grids h, k and device grids a, b of one shape
\* and of type u32, and a device grid w of that shape and of type vec4f, whose
\* buffer is four times as long.  The caller has written h and uploaded a.
InitCopy ==
    /\ \E d \in Dims(MaxCells), res \in BaseRes, ofs \in BaseOfs :
          /\ grid = [g \in {"h", "k", "a", "b", "w"} |->
                       IF g \in {"h", "k"}
                       THEN VoxelGridCpu(res, d[1], d[2], d[3], ofs, "u32")
                       ELSE VoxelGridGpu(res, d[1], d[2], d[3], ofs,
                                         IF g = "w" THEN "vec4f" ELSE "u32")]
          /\ \E dh, da \in [1..(d[1] * d[2] * d[3]) -> {0, 1}] :
                cells = [g \in {"h", "k", "a", "b", "w"} |->
                           IF g = "h" THEN dh
                           ELSE IF g = "a" THEN [i \in DOMAIN da |-> 2 * da[i]]
                           ELSE [i \in DOMAIN dh |-> 0]]
    /\ live = [l \in BufLabels |-> IF l = "buf-storage" THEN 3 ELSE 0]
    /\ lastCall = Call("constructor", "", <<>>, "ok", "ok", 0, 0)
    /\ IdleDf
    /\ mapPipelines = ConstructorMapPipelines
    /\ map2Pipelines = <<>>
    /\ reducePipelines = ConstructorReducePipelines

NextCopy == \E i, o \in DOMAIN grid : copy(i, o)

SpecCopy == InitCopy /\ [][NextCopy]_vars

\* SpecLife: dispatch on device grids a and b of one shape that the caller may
\* destroy; the caller has registered mark and and.
InitLife ==
    /\ \E res \in BaseRes, ofs \in BaseOfs :
          Grids(VoxelGridGpu(res, MaxCells, 1, 1, ofs, "u32"),
                VoxelGridGpu(res, MaxCells, 1, 1, ofs, "f32"))
    /\ mapPipelines =
          ("mark" :> MapPipeline("mark", "u32", "u32", SnippetMark))
          @@ ConstructorMapPipelines
    /\ map2Pipelines = ("and" :> Map2Pipeline("and", "u32", "u32", "u32", SnippetAnd))
    /\ reducePipelines = ConstructorReducePipelines

NextLife ==
    \/ \E g \in DOMAIN grid : destroy(g)
    \/ Next

SpecLife == InitLife /\ [][NextLife]_vars

\* SpecFill: the device fill, map and destroy on device grids a (u32) and b
\* (f32) of one shape, of a resolution that puts every cell below x = 10 or
\* of one that does not.
FillRes == {2, 10}

InitFill ==
    /\ \E d \in Dims(MaxCells), res \in FillRes, ofs \in BaseOfs :
          Grids(VoxelGridGpu(res, d[1], d[2], d[3], ofs, "u32"),
                VoxelGridGpu(res, d[1], d[2], d[3], ofs, "f32"))
    /\ mapPipelines = ConstructorMapPipelines
    /\ map2Pipelines = <<>>
    /\ reducePipelines = ConstructorReducePipelines

NextFill ==
    \/ \E buf \in DOMAIN grid, b \in Boundaries :
          GpuKernels_fill(createBoxShape(Vec3(0, 0, 0), Vec3(2, 0, 0), Vec3(0, 2, 0),
                                         Vec3(0, 0, 2)), buf, b)
    \/ \E fn \in DispatchNames(mapPipelines), i, o \in DOMAIN grid : map(fn, i, o)
    \/ \E g \in DOMAIN grid : destroy(g)

SpecFill == InitFill /\ [][NextFill]_vars

\* SpecReduce: the dispatches of reduce on a device grid a of f32 cells, in a
\* row of two cells or of more cells than a workgroup has threads, all cells
\* alike but one.
ReduceLens == {n \in 2..MaxElems : n = 2 \/ n > wgSize}
ReduceVals == {<<1, 2>>, <<2, 1>>, <<invalidValue, 1>>}

InitReduce ==
    /\ \E n \in ReduceLens, res \in BaseRes, ofs \in BaseOfs :
          /\ grid = [g \in {"a"} |-> VoxelGridGpu(res, n, 1, 1, ofs, "f32")]
          /\ \E k \in 1..n, v \in ReduceVals :
                cells = [g \in {"a"} |-> [i \in 1..n |-> IF i = k THEN v[1] ELSE v[2]]]
    /\ live = [l \in BufLabels |-> IF l = "buf-storage" THEN 1 ELSE 0]
    /\ lastCall = Call("constructor", "", <<>>, "ok", "ok", 0, 0)
    /\ IdleDf
    /\ mapPipelines = ConstructorMapPipelines
    /\ map2Pipelines = <<>>
    /\ reducePipelines = ConstructorReducePipelines

NextReduce ==
    \E fn \in DOMAIN reducePipelines, i \in DOMAIN grid : reduceDispatches(fn, i)

SpecReduce == InitReduce /\ [][NextReduce]_vars

\* SpecKernels: the kernel dispatches.  Device grids a (u32) and b (f32) of one
\* shape for map, map2 and distField, and a row r of MaxElems f32 cells whose
\* reduction takes two rounds.
InitKernels ==
    /\ \E d \in Dims(MaxCells), res \in BaseRes, ofs \in BaseOfs :
          /\ grid = [g \in {"a", "b", "r"} |->
                       IF g = "r" THEN VoxelGridGpu(res, MaxElems, 1, 1, ofs, "f32")
                       ELSE VoxelGridGpu(res, d[1], d[2], d[3], ofs,
                                         IF g = "a" THEN "u32" ELSE "f32")]
          /\ \E data \in [1..(d[1] * d[2] * d[3]) -> {0, 1}] :
                cells = [g \in {"a", "b", "r"} |->
                           IF g = "a" THEN data
                           ELSE IF g = "b" THEN [i \in DOMAIN data |-> 0]
                           ELSE [i \in 1..MaxElems |-> i]]
    /\ live = [l \in BufLabels |-> IF l = "buf-storage" THEN 3 ELSE 0]
    /\ lastCall = Call("constructor", "", <<>>, "ok", "ok", 0, 0)
    /\ IdleDf
    /\ mapPipelines =
          ("negate" :> MapPipeline("negate", "f32", "f32", SnippetNegate))
          @@ ("mark" :> MapPipeline("mark", "u32", "u32", SnippetMark))
          @@ ConstructorMapPipelines
    /\ map2Pipelines =
          ("add" :> Map2Pipeline("add", "u32", "u32", "f32", SnippetAdd))
          @@ ("mask" :> Map2Pipeline("mask", "u32", "f32", "f32", SnippetMask))
    /\ reducePipelines = ConstructorReducePipelines

NextKernels ==
    \/ \E fn \in DOMAIN mapPipelines, i, o \in DOMAIN grid : map(fn, i, o)
    \/ \E fn \in DOMAIN map2Pipelines, i1, i2, o \in DOMAIN grid : map2(fn, i1, i2, o)
    \/ \E fn \in DOMAIN reducePipelines, i \in DOMAIN grid : reduceDispatches(fn, i)
    \/ \E i, o \in DOMAIN grid : distField(i, o)
    \/ \E ix \in 0..(wgSize - 1) : jump_flood(ix)
    \/ distFieldNextPass
    \/ distFieldFinish

SpecKernels == InitKernels /\ [][NextKernels]_vars

\* The host grids: one row longer than a block, and the cube of two cells a side.
HostDims ==
    {d \in Dims(MaxCellsHost) :
        \/ d[1] > blockSize
        \/ d[1] = 2 /\ d[2] = 2 /\ d[3] = 2}

\* Boxes along the axes: over the first cells of a row, at the ninth cell of a
\* row (in its second block), and far from every grid.
BoxNear == createBoxShape(Vec3(4, 1, 1), Vec3(4, 0, 0), Vec3(0, 2, 0), Vec3(0, 0, 2))
BoxSecondBlock == createBoxShape(Vec3(17, 1, 1), Vec3(1, 0, 0), Vec3(0, 1, 0), Vec3(0, 0, 1))
\* A box around the centre of cell (0, 1, 0).
BoxAtY == createBoxShape(Vec3(1, 3, 1), Vec3(1, 0, 0), Vec3(0, 1, 0), Vec3(0, 0, 1))
BoxFar == createBoxShape(Vec3(60, 1, 1), Vec3(1, 0, 0), Vec3(0, 1, 0), Vec3(0, 0, 1))
Boxes == {BoxNear, BoxSecondBlock, BoxFar}

\* Shapes that createSdf rejects.
BoxSkewed == createBoxShape(Vec3(4, 1, 1), Vec3(4, 0, 0), Vec3(1, 0, 0), Vec3(0, 0, 2))
CylinderLong == createCylinderShape(Vec3(0, 0, 0), Vec3(2, 0, 0), 1, 2)
ELHSlanted == createELHShape(Vec3(0, 0, 0), Vec3(1, 0, 0), Vec3(1, 0, 0), 1, 2)
RejectedShapes == {BoxSkewed, CylinderLong, ELHSlanted}

Vals == {1}
FillVals == {0, 2}
RoundModes == {"outside", "inside", "nearest", "up"}
Preds == {"zero", "nonzero"}

\* One host grid h of type u32 and of shape d, its cells zero; the caller has
\* constructed no GpuKernels, so there are no tables and no device buffers.
HostGrid(d) ==
    /\ \E res \in BaseRes, ofs \in BaseOfs :
          grid = [g \in {"h"} |-> VoxelGridCpu(res, d[1], d[2], d[3], ofs, "u32")]
    /\ cells = [g \in {"h"} |-> [i \in 1..(d[1] * d[2] * d[3]) |-> 0]]
    /\ live = [l \in BufLabels |-> 0]
    /\ lastCall = Call("constructor", "", <<>>, "ok", "ok", 0, 0)
    /\ IdleDf
    /\ mapPipelines = <<>>
    /\ map2Pipelines = <<>>
    /\ reducePipelines = <<>>

\* SpecHost: the caller fills one host grid and constructs shapes.
InitHost == \E d \in HostDims : HostGrid(d)

NextHost ==
    \/ \E vg \in DOMAIN grid, shape \in Boxes, val \in Vals, roundMode \in RoundModes :
          fillShape(vg, shape, val, roundMode)
    \/ \E vg \in DOMAIN grid, shape \in RejectedShapes, val \in Vals :
          fillShape(vg, shape, val, "nearest")
    \/ \E vg \in DOMAIN grid, val \in FillVals : fill(vg, val)
    \/ \E n \in {Vec3(1, 0, 0), Vec3(2, 0, 0)} :
          newCylinderShape(Vec3(0, 0, 0), n, 1, 2)
    \/ \E q \in {Vec3(0, 2, 0), Vec3(1, 0, 0)}, n \in {Vec3(1, 0, 0), Vec3(2, 0, 0)} :
          newELHShape(Vec3(0, 0, 0), q, n, 1, 2)
    \/ \E halfVec1 \in {Vec3(0, 2, 0), Vec3(1, 0, 0)} :
          newBoxShape(Vec3(4, 1, 1), Vec3(4, 0, 0), halfVec1, Vec3(0, 0, 2))

SpecHost == InitHost /\ [][NextHost]_vars

\* SpecQuery: the caller fills one host grid and asks about the cells inside
\* boxes.
NextQuery ==
    \/ \E vg \in DOMAIN grid, shape \in {BoxNear, BoxSecondBlock, BoxAtY}, val \in Vals,
          roundMode \in {"outside", "inside", "nearest"} :
          fillShape(vg, shape, val, roundMode)
    \/ \E vg \in DOMAIN grid, val \in FillVals : fill(vg, val)
    \/ \E vg \in DOMAIN grid, shape \in {BoxNear, BoxSecondBlock}, m \in {-1, 0, 1},
          pred \in Preds :
          everyPointInsideIs(vg, shape, m, pred)
    \/ \E vg \in DOMAIN grid, shape \in {BoxNear, BoxSecondBlock}, m \in {-1, 0, 1},
          pred \in Preds :
          anyPointInsideIs(vg, shape, m, pred)

SpecQuery == InitHost /\ [][NextQuery]_vars

\* SpecTraverse: fillShape and fill on host grids with a dimension equal to the
\* block size, larger than it, or smaller.
TraverseDims ==
    {d \in Dims(MaxCellsHost) :
        \/ d[1] >= blockSize \/ d[2] = blockSize \/ d[3] = blockSize
        \/ d[1] = 2 /\ d[2] = 2 /\ d[3] = 2}

InitTraverse == \E d \in TraverseDims : HostGrid(d)

NextTraverse ==
    \/ \E vg \in DOMAIN grid, shape \in Boxes, val \in Vals,
          roundMode \in {"outside", "inside", "nearest"} :
          fillShape(vg, shape, val, roundMode)
    \/ \E vg \in DOMAIN grid, val \in FillVals : fill(vg, val)

SpecTraverse == InitTraverse /\ [][NextTraverse]_vars

\* SpecSdf: the caller evaluates the SDF of cylinders at points of integer
\* coordinates.  The unit of length is half the unit of the cylinder of radius
\* 1 and height 2 along z at the origin, which is CylinderZ here.
CylinderZ == createCylinderShape(Vec3(0, 0, 0), Vec3(0, 0, 1), 2, 4)
CylinderX == createCylinderShape(Vec3(1, 0, 0), Vec3(1, 0, 0), 1, 2)
Cylinders == {CylinderZ, CylinderX}

\* The points at which the length of the projection on the plane of the
\* cylinder is an integer.
SdfPoints(shape) ==
    {x \in (-MaxCoord..MaxCoord) \X (-MaxCoord..MaxCoord) \X (-MaxCoord..MaxCoord) :
        PerfectSquare(dot(projectOnPlane(sub(x, shape.p), shape.n),
                          projectOnPlane(sub(x, shape.p), shape.n)))}

InitSdf == HostGrid(Vec3(1, 1, 1))

NextSdf ==
    \/ \E shape \in Cylinders : \E x \in SdfPoints(shape) : sdf(shape, x)
    \/ \E x \in {Vec3(0, 0, 0)} : sdf(CylinderLong, x)

SpecSdf == InitSdf /\ [][NextSdf]_vars

\* SpecClone: the caller clones a small host grid once and writes the cells of
\* it and of its clone.
InitClone == \E d \in Dims(MaxCells) : HostGrid(d)

NextClone ==
    \/ \E vg \in DOMAIN grid : clone(vg)
    \/ \E vg \in DOMAIN grid, val \in Vals :
          \E c \in {Vec3(0, 0, 0),
                    Vec3(grid[vg].numX - 1, grid[vg].numY - 1, grid[vg].numZ - 1)} :
             setCell(vg, c, val)
    \/ \E vg \in DOMAIN grid, val \in FillVals : fill(vg, val)
    \/ \E vg \in DOMAIN grid, val \in Vals, roundMode \in {"inside", "nearest"} :
          fillShape(vg, BoxNear, val, roundMode)

SpecClone == InitClone /\ [][NextClone]_vars

\* SpecReg: registration and dispatch, from the state the constructor leaves,
\* on grids of one cell pair.
InitReg ==
    /\ Grids(VoxelGridGpu(2, 2, 1, 1, Vec3(0, 0, 0), "u32"),
             VoxelGridGpu(2, 2, 1, 1, Vec3(0, 0, 0), "f32"))
    /\ mapPipelines = ConstructorMapPipelines
    /\ map2Pipelines = <<>>
    /\ reducePipelines = ConstructorReducePipelines

NextReg ==
    \/ \E name \in {"df_init", "negate", Inherited}, f \in MapFns :
          registerMapFn(name, f[1], f[2], f[3])
    \/ \E name \in {"and"}, f \in Map2Fns :
          registerMap2Fn(name, f[1], f[2], f[3], f[4])
    \/ \E name \in {"min_ignore_invalid", "min"}, f \in ReduceFns :
          registerReduceFn(name, f[1], f[2], f[3])
    \/ Next

SpecReg == InitReg /\ [][NextReg]_vars

\* ------------------------------------------------------------------ claims
\* The step is a call of map or map2 whose output grid is one of its inputs.
InPlaceCall(c) ==
    \/ c.op = "map" /\ c.args[2] = c.args[1]
    \/ c.op = "map2" /\ c.args[3] \in {c.args[1], c.args[2]}

\* What the kernel of the call c writes to a distinct, fresh output grid, from
\* the contents C of the grids before the call.
OutOfPlaceResult(c, C) ==
    IF c.op = "map"
    THEN MapKernel(mapPipelines[c.fn], grid[c.args[1]], C[c.args[1]],
                   ZeroCells(grid[c.args[1]]))
    ELSE Map2Kernel(map2Pipelines[c.fn], grid[c.args[1]], C[c.args[1]], C[c.args[2]],
                    ZeroCells(grid[c.args[1]]))

\* C1: an in-place map or map2 call that completes leaves in its grid, for
\* every cell, the value the same kernel writes to a distinct output grid.
C1_InPlaceEqualsOutOfPlace ==
    [][(InPlaceCall(lastCall') /\ lastCall'.status = "ok")
         => cells'[lastCall'.args[Len(lastCall'.args)]] = OutOfPlaceResult(lastCall', cells)]_vars

\* C2: after an in-place map or map2 call the device buffers alive are those
\* alive before the call: the temporary grid has been destroyed.
C2_InPlaceTempDestroyed ==
    [][InPlaceCall(lastCall') => live' = live]_vars

\* Two grids differ in res, numX, numY, numZ or ofs.
Differ(g1, g2) ==
    \/ g1.res # g2.res
    \/ g1.numX # g2.numX \/ g1.numY # g2.numY \/ g1.numZ # g2.numZ
    \/ g1.ofs # g2.ofs

MismatchedCall(c) ==
    /\ c.op \in {"map", "map2", "distField", "copy"}
    /\ \E i, j \in 1..Len(c.args) : Differ(grid[c.args[i]], grid[c.args[j]])

\* C3: a call of map, map2, distField or copy on grids that differ in res,
\* numX, numY, numZ or ofs fails, creates no buffer, submits nothing and
\* changes no grid.
C3_MismatchNoSideEffects ==
    [][MismatchedCall(lastCall')
         => /\ lastCall'.status = "error"
            /\ lastCall'.created = 0 /\ lastCall'.queued = 0
            /\ cells' = cells /\ live' = live /\ grid' = grid]_vars

\* A map2 call on grids of different res has been rejected.
C3_Witness ==
    /\ lastCall.op = "map2" /\ lastCall.args = <<"a", "b", "b">>
    /\ lastCall.error = "Grid resolution mismatch"

\* The fold of the reduce function of pipeline over the first n cells of vs.
RECURSIVE Fold(_, _, _)
Fold(pipeline, vs, n) ==
    IF n = 0 THEN InitValOf(pipeline.initVal)
    ELSE EvalReduceSnippet(pipeline.snippet, Fold(pipeline, vs, n - 1), vs[n])

\* C4: reduce with a registered function completes and returns the fold of the
\* function over all cells of the grid.
C4_ReduceReturnsFold ==
    (lastCall.op = "reduce" /\ lastCall.fn \in DOMAIN reducePipelines)
      => /\ lastCall.status = "ok"
         /\ lastCall.result = Fold(reducePipelines[lastCall.fn], cells[lastCall.args[1]],
                                   Len(cells[lastCall.args[1]]))

\* dot(dir, centerOf(cell)) of the cells of grid g whose value is > 0.
Projections(dir, g) ==
    {LET c == centerOf(grid[g], decompose_ix(grid[g], i - 1))
     IN dir[1] * c[1] + dir[2] * c[2] + dir[3] * c[3] :
       i \in {n \in 1..Len(cells[g]) : cells[g][n] > 0}}

\* C8: boundOfAxis returns the least and the greatest dot(dir, centerOf(cell))
\* over the cells whose value is > 0 (stated for boundary = nearest, whose
\* offset is 0, and for a grid with such a cell).
C8_BoundOfAxisReturnsBounds ==
    (lastCall.op = "boundOfAxis" /\ lastCall.fn = "nearest"
        /\ \E i \in 1..Len(cells[lastCall.args[1]]) : cells[lastCall.args[1]][i] > 0)
      => /\ lastCall.status = "ok"
         /\ \E dir \in Directions :
              LET ps == Projections(dir, lastCall.args[1])
              IN /\ lastCall.result.min \in ps /\ lastCall.result.max \in ps
                 /\ \A v \in ps : lastCall.result.min <= v /\ v <= lastCall.result.max

\* C9: the position p a map kernel binds for thread i is the host grid's
\* centerOf(decompose(i)): project_to_axis, which stores p.x for a cell whose
\* value is > 0, stores the x coordinate of the host's cell centre.
C9_KernelBindsHostCentre ==
    (lastCall.op = "map" /\ lastCall.fn = "project_to_axis" /\ lastCall.status = "ok")
      => \A i \in 1..Len(cells[lastCall.args[1]]) :
            cells[lastCall.args[1]][i] > 0
              => cells[lastCall.args[2]][i]
                   = centerOf(grid[lastCall.args[1]],
                              decompose_ix(grid[lastCall.args[1]], i - 1))[1]

\* Every name of table t1 is in table t2 with the same pipeline.
KeepsTable(t1, t2) == \A n \in DOMAIN t1 : n \in DOMAIN t2 /\ t2[n] = t1[n]

\* C10: a name registered in a table stays registered with the same pipeline
\* through every register and dispatch call, and registering a name already
\* in its table throws.
C10_RegistrationOneShot ==
    [][/\ KeepsTable(mapPipelines, mapPipelines')
       /\ KeepsTable(map2Pipelines, map2Pipelines')
       /\ KeepsTable(reducePipelines, reducePipelines')
       /\ (lastCall'.op = "registerMapFn" /\ lastCall'.fn \in DOMAIN mapPipelines)
            => lastCall'.status = "error"
       /\ (lastCall'.op = "registerMap2Fn" /\ lastCall'.fn \in DOMAIN map2Pipelines)
            => lastCall'.status = "error"
       /\ (lastCall'.op = "registerReduceFn" /\ lastCall'.fn \in DOMAIN reducePipelines)
            => lastCall'.status = "error"]_vars

\* registerMapFn of the registered name negate has thrown, and negate has kept
\* its pipeline.
C10_Witness ==
    /\ lastCall.op = "registerMapFn" /\ lastCall.fn = "negate"
    /\ lastCall.error = "Map fn already registered"
    /\ mapPipelines["negate"].snippet = SnippetNegate

\* distField has completed on seed grid and distance grid lastCall.args.
DistFieldDone == lastCall.op = "distField" /\ lastCall.status = "ok"

\* The cells of the seed grid of the last distField call that hold a seed.
Seeds == {n \in 1..Len(cells[lastCall.args[1]]) : cells[lastCall.args[1]][n] > 0}

\* C5: once distField has completed on a seed grid with at least one seed,
\* every cell of the distance grid holds a distance >= 0.
C5_AllCellsValid ==
    (DistFieldDone /\ Seeds # {})
      => \A i \in 1..Len(cells[lastCall.args[2]]) : cells[lastCall.args[2]][i] >= 0

\* The distance (as its square) between the centres of cells i and n of grid g.
CentreDistance(g, i, n) ==
    distance(centerOf(g, decompose_ix(g, i - 1)), centerOf(g, decompose_ix(g, n - 1)))

\* C6: once distField has completed, every cell of the distance grid holds the
\* distance between its centre and the centre of the seed cell nearest to it.
C6_DistanceToNearestSeed ==
    (DistFieldDone /\ Seeds # {})
      => \A i \in 1..Len(cells[lastCall.args[2]]) :
            /\ \E n \in Seeds :
                 cells[lastCall.args[2]][i] = CentreDistance(grid[lastCall.args[1]], i, n)
            /\ \A n \in Seeds :
                 cells[lastCall.args[2]][i] <= CentreDistance(grid[lastCall.args[1]], i, n)

\* C7: distField on a seed grid with no cell > 0 writes -1 to every cell of
\* the distance grid, whether or not a jump flood pass runs.
C7_EmptySeedAllSentinel ==
    (DistFieldDone /\ Seeds = {})
      => \A i \in 1..Len(cells[lastCall.args[2]]) : cells[lastCall.args[2]][i] = -1

\* distField has run at least one pass on a seed grid with no seed.
C7_Witness ==
    /\ DistFieldDone /\ Seeds = {}
    /\ NumPass(grid[lastCall.args[1]]) >= 1
    /\ \A i \in 1..Len(cells[lastCall.args[2]]) : cells[lastCall.args[2]][i] = -1

\* The table that map, map2 or reduce reads its pipeline from.
TableOf(op) ==
    IF op = "map" THEN mapPipelines
    ELSE IF op = "map2" THEN map2Pipelines ELSE reducePipelines

\* C11: map, map2 and reduce called with a name that no register call has put
\* in their table fail before a device buffer is created and before anything
\* is submitted, and leave the grids and the live buffers as they were.
C11_UnregisteredFailsAtBoundary ==
    [][(lastCall'.op \in {"map", "map2", "reduce"}
          /\ lastCall'.fn \notin DOMAIN TableOf(lastCall'.op))
         => /\ lastCall'.status = "error"
            /\ lastCall'.created = 0 /\ lastCall'.queued = 0
            /\ live' = live /\ cells' = cells]_vars

\* C15: copy between grids of equal metadata, cell type and byte length, of
\* whatever kinds (host or device), completes, leaves in the destination the
\* cells of the source and leaves the source as it was.
C15_CopyTransfersCells ==
    [][(/\ lastCall'.op = "copy"
        /\ ~Differ(grid[lastCall'.args[1]], grid[lastCall'.args[2]])
        /\ grid[lastCall'.args[1]].type = grid[lastCall'.args[2]].type
        /\ ByteSize(grid[lastCall'.args[1]]) = ByteSize(grid[lastCall'.args[2]])
        /\ grid[lastCall'.args[1]].buffer # Null /\ grid[lastCall'.args[2]].buffer # Null)
         => /\ lastCall'.status = "ok"
            /\ cells'[lastCall'.args[2]] = cells[lastCall'.args[1]]
            /\ cells'[lastCall'.args[1]] = cells[lastCall'.args[1]]]_vars

\* C16: copy between buffers of different byte lengths fails before a byte
\* moves: no buffer is created, nothing is submitted, every grid is unchanged.
C16_SizeMismatchFails ==
    [][(/\ lastCall'.op = "copy"
        /\ ByteSize(grid[lastCall'.args[1]]) # ByteSize(grid[lastCall'.args[2]]))
         => /\ lastCall'.status = "error"
            /\ lastCall'.created = 0 /\ lastCall'.queued = 0
            /\ live' = live /\ cells' = cells]_vars

\* A copy from the host grid h to the longer device grid w has been rejected
\* for its size.
C16_Witness ==
    /\ lastCall.op = "copy" /\ lastCall.args = <<"h", "w">>
    /\ lastCall.error = "Buffer size mismatch"
    /\ \E i \in 1..Len(cells["h"]) : cells["h"][i] # cells["w"][i]

\* A grid among the arguments of call c has been destroyed.
UsesDestroyed(c) == \E i \in 1..Len(c.args) : grid[c.args[i]].buffer = Null

\* C17: a map, map2, reduce (with a registered name), distField or copy call
\* on a destroyed device grid fails, and the device buffers alive after it are
\* those alive before it (copy(g, g), which returns at once, aside).
C17_DestroyedGridFailsCleanly ==
    [][(/\ lastCall'.op \in {"map", "map2", "reduce", "distField", "copy"}
        /\ lastCall'.op \in {"map", "map2", "reduce"}
              => lastCall'.fn \in DOMAIN TableOf(lastCall'.op)
        /\ dfpc = "idle" /\ lastCall'.status # "pending"
        /\ UsesDestroyed(lastCall')
        /\ ~(lastCall'.op = "copy" /\ lastCall'.args[1] = lastCall'.args[2]))
         => /\ lastCall'.status = "error"
            /\ live' = live]_vars

\* The offset that the claims give to a round mode, as the multiple of halfDiag.
RoundOffset(roundMode) ==
    CASE roundMode = "outside" -> 1 [] roundMode = "inside" -> -1 [] roundMode = "nearest" -> 0

\* The indices (from 1) of the cells of vg whose centre has SDF <= m * halfDiag.
Selected(vg, shape, m) ==
    {i \in 1..NumCells(vg) :
        SdfLeq(createSdf(shape, centerOf(vg, decompose_ix(vg, i - 1))), m, vg.res)}

\* C12: after a fillShape that returns, every cell whose centre has
\* SDF <= offset (halfDiag for outside, -halfDiag for inside, 0 for nearest)
\* holds val and every other cell holds the value it had: the test on blocks
\* drops no selected cell.
C12_FillShapeWritesSelected ==
    [][(lastCall'.op = "fillShape" /\ lastCall'.status = "ok")
         => \A i \in DOMAIN cells[lastCall'.args[1]] :
               cells'[lastCall'.args[1]][i] =
                  IF i \in Selected(grid[lastCall'.args[1]], lastCall'.shape,
                                    RoundOffset(lastCall'.mode))
                  THEN lastCall'.val ELSE cells[lastCall'.args[1]][i]]_vars

\* fillShape has written the ninth cell of a row, in the second block, and
\* left another value than zero in a cell it did not select.
C12_Witness ==
    /\ lastCall.op = "fillShape" /\ lastCall.status = "ok"
    /\ lastCall.shape = BoxSecondBlock
    /\ grid["h"].numX > blockSize
    /\ cells["h"][blockSize + 1] = lastCall.val
    /\ \E i \in DOMAIN cells["h"] : cells["h"][i] \notin {0, lastCall.val}

\* The cells of vg that fillShape(shape, val, roundMode) writes.
Written(vg, shape, roundMode) ==
    LET cs == TraversedCells(vg, shape, OffsetOf(roundMode))
        data == SetEach(vg, [i \in 1..NumCells(vg) |-> 0], cs, Len(cs), 1)
    IN {i \in 1..NumCells(vg) : data[i] = 1}

\* C13: on the grid and the shape of a fillShape call, the cells written with
\* inside are among those written with nearest, and these among those written
\* with outside.
C13_RoundModesNested ==
    (lastCall.op = "fillShape" /\ lastCall.status = "ok")
      => /\ Written(grid[lastCall.args[1]], lastCall.shape, "inside")
               \subseteq Written(grid[lastCall.args[1]], lastCall.shape, "nearest")
         /\ Written(grid[lastCall.args[1]], lastCall.shape, "nearest")
               \subseteq Written(grid[lastCall.args[1]], lastCall.shape, "outside")

\* fillShape has run on a grid and a shape where the three sets differ and
\* inside writes a cell.
C13_Witness ==
    /\ lastCall.op = "fillShape" /\ lastCall.status = "ok"
    /\ Written(grid[lastCall.args[1]], lastCall.shape, "inside") # {}
    /\ Written(grid[lastCall.args[1]], lastCall.shape, "inside")
          # Written(grid[lastCall.args[1]], lastCall.shape, "nearest")
    /\ Written(grid[lastCall.args[1]], lastCall.shape, "nearest")
          # Written(grid[lastCall.args[1]], lastCall.shape, "outside")

\* C14: fillShape with a round mode other than outside, inside and nearest
\* throws and leaves every cell as it was.
C14_UnknownRoundModeThrows ==
    [][(lastCall'.op = "fillShape"
          /\ lastCall'.mode \notin {"outside", "inside", "nearest"})
         => lastCall'.status = "error" /\ cells' = cells]_vars

\* fillShape has thrown for the round mode "up" on a box that selects cells
\* none of which holds val.
C14_Witness ==
    /\ lastCall.op = "fillShape" /\ lastCall.mode = "up"
    /\ lastCall.error = "Unknown round mode"
    /\ \E i \in Selected(grid["h"], lastCall.shape, 0) : cells["h"][i] # lastCall.val

\* The shapes that the claim calls invalid.
Malformed(shape) ==
    \/ shape.type \in {"cylinder", "ELH"} /\ dot(shape.n, shape.n) # 1
    \/ shape.type = "ELH" /\ dot(sub(shape.q, shape.p), shape.n) # 0
    \/ shape.type = "box"
         /\ \/ dot(shape.halfVec0, shape.halfVec1) # 0
            \/ dot(shape.halfVec0, shape.halfVec2) # 0
            \/ dot(shape.halfVec1, shape.halfVec2) # 0

\* C18: a shape constructor called with a direction that is not a unit vector,
\* with q - p not perpendicular to n (ELH) or with half vectors that are not
\* orthogonal (box) fails: it returns no shape.
C18_ConstructorsValidate ==
    (lastCall.op \in {"createCylinderShape", "createELHShape", "createBoxShape"}
       /\ Malformed(lastCall.shape))
      => lastCall.status = "error"

\* res, numX, numY, numZ, ofs and type of a host grid.
Metadata(g) == <<g.res, g.numX, g.numY, g.numZ, g.ofs, g.type>>

\* C19: clone returns a grid of the metadata and the cells of its source and
\* leaves the source as it was; after it, set, fill and fillShape on one of
\* the two grids leave the metadata and the cells of the other as they were.
C19_CloneIsIndependent ==
    [][/\ (lastCall'.op = "clone" /\ lastCall'.status = "ok")
            => /\ Metadata(grid'[lastCall'.result]) = Metadata(grid[lastCall'.args[1]])
               /\ cells'[lastCall'.result] = cells[lastCall'.args[1]]
               /\ grid'[lastCall'.args[1]] = grid[lastCall'.args[1]]
               /\ cells'[lastCall'.args[1]] = cells[lastCall'.args[1]]
       /\ lastCall'.op \in {"set", "fill", "fillShape"}
            => \A g \in DOMAIN grid \ {lastCall'.args[1]} :
                  grid'[g] = grid[g] /\ cells'[g] = cells[g]]_vars

\* After a clone of a grid with a cell other than zero, a call has written
\* one of the two grids and their cells differ.
C19_Witness ==
    /\ cloneId \in DOMAIN grid
    /\ lastCall.op \in {"set", "fill", "fillShape"} /\ lastCall.status = "ok"
    /\ cells[cloneId] # cells["h"]
    /\ \E i \in DOMAIN cells[cloneId] : cells[cloneId][i] # 0 /\ cells["h"][i] # 0

\* The predicate that is false where pred is true.
Negated(pred) == IF pred = "zero" THEN "nonzero" ELSE "zero"

\* The selected cells of vg (indices from 1) that satisfy pred.
Satisfying(vg, shape, m, pred) ==
    {i \in Selected(grid[vg], shape, m) : Pred(pred, vg, decompose_ix(grid[vg], i - 1))}

\* C20: everyPointInsideIs is true iff every selected cell satisfies pred,
\* anyPointInsideIs is true iff some selected cell does, every(pred) equals
\* not any(not pred), and pred is called on the selected cells in order up to
\* the first that decides (one that fails pred for every, one that satisfies
\* it for any) and on no cell after it.
C20_EveryAnyShortCircuit ==
    lastCall.op \in {"everyPointInsideIs", "anyPointInsideIs"}
      => LET vg == lastCall.args[1]
             shape == lastCall.shape
             m == lastCall.val
             pred == lastCall.mode
             sel == Selected(grid[vg], shape, m)
             cs == TraversedCells(grid[vg], shape, m)
             Decides(c) == IF lastCall.op = "everyPointInsideIs"
                           THEN ~Pred(pred, vg, c) ELSE Pred(pred, vg, c)
         IN /\ lastCall.op = "everyPointInsideIs"
                 => lastCall.result = (Satisfying(vg, shape, m, pred) = sel)
            /\ lastCall.op = "anyPointInsideIs"
                 => lastCall.result = (Satisfying(vg, shape, m, pred) # {})
            /\ everyPointInsideIsRun(vg, shape, m, pred).result
                 = ~anyPointInsideIsRun(vg, shape, m, Negated(pred)).result
            /\ lastCall.calls <= Len(cs)
            /\ \A i \in 1..(lastCall.calls - 1) : ~Decides(cs[i])
            /\ IF \E i \in 1..Len(cs) : Decides(cs[i])
               THEN lastCall.calls >= 1 /\ Decides(cs[lastCall.calls])
               ELSE lastCall.calls = Len(cs)

\* everyPointInsideIs has returned false at a cell that is neither the first
\* nor the last of the selected cells.
C20_Witness ==
    /\ lastCall.op = "everyPointInsideIs" /\ lastCall.result = FALSE
    /\ lastCall.calls > 1
    /\ lastCall.calls < Cardinality(Selected(grid["h"], lastCall.shape, lastCall.val))

\* The sign of the SDF value neg + sqrt(sq).
SdfSign(v) ==
    IF v.sq > v.neg * v.neg THEN 1 ELSE IF v.sq < v.neg * v.neg THEN -1 ELSE 0

\* The capped cylinder c: the points at 0 <= (x - p) . n <= h along the axis
\* and at most r from it; strictly inside, both are strict.
Axial(c, x) == dot(sub(x, c.p), c.n)
RadialSq(c, x) == dot(sub(x, c.p), sub(x, c.p)) - Axial(c, x) * Axial(c, x)
InCylinder(c, x) == Axial(c, x) >= 0 /\ Axial(c, x) <= c.h /\ RadialSq(c, x) <= c.r * c.r
StrictlyInCylinder(c, x) ==
    Axial(c, x) > 0 /\ Axial(c, x) < c.h /\ RadialSq(c, x) < c.r * c.r

\* The points off the axis of c in the direction of one coordinate axis: the
\* point of the cylinder nearest to such a point has integer coordinates.
AlongAxis(c, x) ==
    Cardinality({k \in 1..3 : projectOnPlane(sub(x, c.p), c.n)[k] # 0}) <= 1

\* The square of the distance from x to the cylinder c.
DistSqToCylinder(c, x) ==
    LET box == (-MaxCoord..MaxCoord) \X (-MaxCoord..MaxCoord) \X (-MaxCoord..MaxCoord)
        ds == {distance(x, y) : y \in {z \in box : InCylinder(c, z)}}
    IN CHOOSE d \in ds : \A e \in ds : d <= e

\* The values of the claim, for the cylinder of radius 1 and height 2 along z
\* at the origin, in halves: -1 at (0,0,1), 0 at (1,0,1), 1 at (2,0,1), 0.5 at
\* (0,0,-0.5) and 1 at (0,0,3).
CylinderSamples ==
    {<<Vec3(0, 0, 2), -2, 0>>, <<Vec3(2, 0, 2), 0, 0>>, <<Vec3(4, 0, 2), 0, 4>>,
     <<Vec3(0, 0, -1), 0, 1>>, <<Vec3(0, 0, 6), 0, 4>>}

RECURSIVE VisitFrom(_, _, _, _, _, _)
VisitFrom(g, buf, ix3, step, sd, i) ==
    IF i > 6 THEN sd
    ELSE VisitFrom(g, buf, ix3, step,
                   IF InBound(g, NeighbourOf(ix3, i, step))
                   THEN VisitNeighbour(sd, buf[compose_ix(g, NeighbourOf(ix3, i, step)) + 1],
                                       cell_center(g, ix3))
                   ELSE sd,
                   i + 1)

\* The df buffer after a pass in which every thread reads before any writes.
ReadsFirstPass(g, buf, step) ==
    [k \in 1..Len(buf) |->
        IF buf[k].w = 0 THEN buf[k]
        ELSE VisitFrom(g, buf, decompose_ix(g, k - 1), step, buf[k], 1)]

\* The df buffer after the passes pass, pass + 1, ... in that order.
RECURSIVE ReadsFirstFrom(_, _, _)
ReadsFirstFrom(g, buf, pass) ==
    IF pass >= NumPass(g) THEN buf
    ELSE ReadsFirstFrom(g, ReadsFirstPass(g, buf, StepOf(g, pass)), pass + 1)

\* The df buffer that df_init makes of the seed cells vs.
SeedDf(g, vs) ==
    [k \in 1..Len(vs) |->
        EvalMapSnippet(df_init, cell_center(g, decompose_ix(g, k - 1)), vs[k])]

\* C22: the df buffer that the jump flood passes of distField leave does not
\* depend on the order in which the threads of a pass read their neighbours
\* and write their entry: it is the one left when every thread reads first.
C22_FloodOrderIndependent ==
    dfpc = "final"
      => dfBuf = ReadsFirstFrom(grid[dfArgs[1]],
                                SeedDf(grid[dfArgs[1]], cells[dfArgs[1]]), 0)

\* C23: every uniform buffer that map, map2, reduce, fill or distField creates
\* is destroyed by the time the call finishes, with or without an error: when
\* no call is in progress, no uniform buffer is alive.
C23_UniformBuffersDestroyed ==
    dfpc = "idle" => live["buf-uniform"] = 0

\* The value a workgroup of the reduce kernel stores when only the elements
\* below numElems are folded and every other thread contributes initVal.
FoldBelow(pipeline, vsIn, o, numElems) ==
    WgReduce(pipeline.snippet,
             [lid \in 0..(wgSize - 1) |->
                 IF (o - 1) * wgSize + lid < numElems
                 THEN vsIn[(o - 1) * wgSize + lid + 1]
                 ELSE InitValOf(pipeline.initVal)],
             wgSize \div 2)[0]

\* C24: in each round of reduce over numElems elements the kernel folds only
\* the elements of index below numElems, every other thread contributing the
\* initial value, and writes exactly the first ceil(numElems / wgSize) outputs.
C24_RoundFoldsLiveElements ==
    lastCall.op = "reduceDispatches" =>
       \A r \in 1..Len(lastCall.dispatches) :
          LET round == lastCall.dispatches[r]
              outs == (round.numElems + wgSize - 1) \div wgSize
          IN \A o \in 1..Len(round.vsOut) :
                round.vsOut[o] =
                   IF o <= outs
                   THEN FoldBelow(reducePipelines[lastCall.fn], round.vsIn, o,
                                  round.numElems)
                   ELSE round.before[o]

\* C25: for min_ignore_invalid and max_ignore_invalid the registered initial
\* value is neutral and the sentinel never wins: for every cell value a other
\* than the sentinel, f(a, init) = f(init, a) = a and
\* f(a, 65536) = f(65536, a) = a.
C25_InitNeutralSentinelLoses ==
    lastCall.op = "reduceDispatches" =>
       LET pipeline == reducePipelines[lastCall.fn]
           init == InitValOf(pipeline.initVal)
           vs == cells[lastCall.args[1]]
       IN \A i \in 1..Len(vs) :
             vs[i] # invalidValue =>
                /\ EvalReduceSnippet(pipeline.snippet, vs[i], init) = vs[i]
                /\ EvalReduceSnippet(pipeline.snippet, init, vs[i]) = vs[i]
                /\ EvalReduceSnippet(pipeline.snippet, vs[i], invalidValue) = vs[i]
                /\ EvalReduceSnippet(pipeline.snippet, invalidValue, vs[i]) = vs[i]

\* ceil(log2(max(numX, numY, numZ))).
Passes(g) ==
    CHOOSE p \in 0..MaxCellsDF :
       /\ 2^p >= Max3(g.numX, g.numY, g.numZ)
       /\ \A q \in 0..(p - 1) : 2^q < Max3(g.numX, g.numY, g.numZ)

\* The dispatch of the jump flood pass k on grid g: step 2^(P - k - 1) in the
\* fourth word of nums.
PassDispatch(g, k) == Dispatch("jump_flood", Nums(g, 2^(Passes(g) - k - 1)))

\* One step of a distField call in order.
C26_Step ==
    LET g == grid[lastCall'.args[1]]
        ds == lastCall'.dispatches
    IN
    /\ lastCall'.op = "distField" /\ lastCall'.status = "pending" =>
          \* df_init came first, with 0 in the fourth word, and the passes so
          \* far follow it in order
          /\ ds[1] = Dispatch("map_df_init", Nums(g, 0))
          /\ dfpc = "idle" => dfPass' = 0 /\ dfBuf' = SeedDf(g, cells[lastCall'.args[1]])
          /\ dfpc' = "pass" =>
                /\ dfPass' < Passes(g)
                /\ Len(ds) = dfPass' + 2
                /\ \A k \in 0..dfPass' : ds[k + 2] = PassDispatch(g, k)
          /\ dfpc' = "final" => dfPass' = Passes(g) /\ Len(ds) = Passes(g) + 1
    \* a pass is submitted after every thread of the pass before has finished
    /\ dfpc = "pass" /\ dfPass' # dfPass =>
          /\ dfPass' = dfPass + 1
          /\ \A i \in 1..Len(tk) : tk[i] = 8
          /\ dfBuf' = dfBuf
    \* df_to_dist follows the last pass
    /\ dfpc = "final" /\ dfpc' = "idle" /\ lastCall'.status = "ok" =>
          /\ Len(ds) = Passes(g) + 2
          /\ \A k \in 0..(Passes(g) - 1) : ds[k + 2] = PassDispatch(g, k)
          /\ ds[Len(ds)] = Dispatch("map_df_to_dist", Nums(g, 0))
          /\ cells'[lastCall'.args[2]] = [i \in 1..Len(dfBuf) |-> dfBuf[i].w]

\* C26: distField runs exactly P = ceil(log2(max(numX, numY, numZ))) jump flood
\* passes, with the steps 2^(P-1), ..., 1 in that order in the fourth word of
\* nums (0 in the map dispatches); a pass is submitted only after the device
\* work of the pass before is done; df_init precedes the first pass and
\* df_to_dist follows the last.
C26_PassesInOrder == [][C26_Step]_vars

\* A distField of two passes has finished: steps 2 and 1.
C26_Witness ==
    /\ lastCall.op = "distField" /\ lastCall.status = "ok"
    /\ Len(lastCall.dispatches) = 4
    /\ lastCall.dispatches[2].nums[4] = 2
    /\ lastCall.dispatches[3].nums[4] = 1
    /\ lastCall.dispatches[4].nums[4] = 0

\* The place of cell c in the order of the claim: blocks by bz, then by, then
\* bx, and within a block by z, then y, then x.
OrderKey(c) ==
    <<c[3] \div blockSize, c[2] \div blockSize, c[1] \div blockSize, c[3], c[2], c[1]>>

\* Cell c comes before cell d in that order.
Before(c, d) ==
    \E k \in 1..6 :
       /\ OrderKey(c)[k] < OrderKey(d)[k]
       /\ \A j \in 1..(k - 1) : OrderKey(c)[j] = OrderKey(d)[j]

\* The cells of vg whose centre is within the offset m of the shape.
SelectedCells(vg, shape, m) ==
    {c \in CellsOf(vg) : SdfLeq(createSdf(shape, centerOf(vg, c)), m, vg.res)}

C28_Step ==
    /\ lastCall'.op \in {"map", "map2"} /\ lastCall'.dispatches # <<>> =>
          LET in == lastCall'.args[1]
              out == lastCall'.args[Len(lastCall'.args)]
              T == DispatchThreads(NumCells(grid[in]))
              n == Len(cells[out])
              stores == UNION {{<<i, slot>> : slot \in MapWrites(i, cells[in])} : i \in T}
          IN /\ \A st \in stores : st[2] = st[1] /\ st[1] < n
             /\ Cardinality({st[2] : st \in stores}) = Cardinality(stores)
             /\ {slot \in 0..(n - 1) : cells'[out][slot + 1] # cells[out][slot + 1]}
                   \subseteq {st[2] : st \in stores}
    /\ lastCall'.op = "reduceDispatches" =>
          \A r \in 1..Len(lastCall'.dispatches) :
             LET round == lastCall'.dispatches[r]
                 T == DispatchThreads(round.numElems)
                 stores == UNION {{<<gid, slot>> : slot \in ReduceWrites(gid)} : gid \in T}
             IN /\ \A st \in stores :
                      /\ st[2] = st[1] \div wgSize
                      /\ st[1] % wgSize = 0
                      /\ st[1] < Len(round.vsIn)
                /\ Cardinality({st[2] : st \in stores}) = Cardinality(stores)
                /\ {o \in 0..(Len(round.vsOut) - 1) : round.vsOut[o + 1] # round.before[o + 1]}
                      \subseteq {st[2] : st \in stores}
    /\ dfpc = "pass" /\ dfBuf' # dfBuf =>
          \E ix \in 0..(Len(dfBuf) - 1) :
             /\ tk'[ix + 1] # tk[ix + 1]
             /\ \A j \in 1..Len(dfBuf) : j # ix + 1 => tk'[j] = tk[j]
             /\ \A k \in 1..Len(dfBuf) :
                   dfBuf'[k] # dfBuf[k] => (k - 1) \in JumpFloodWrites(ix, dfBuf)
             /\ JumpFloodWrites(ix, dfBuf) \subseteq {ix}

\* C28: within one dispatch no storage slot is written by two threads: thread
\* i of a map or map2 kernel writes only out[i], a jump flood thread only its
\* own entry of df, a reduce workgroup only out[gid / wgSize] and from its
\* thread 0, and a thread whose index is past the buffer writes nothing.
C28_NoSlotWrittenTwice == [][C28_Step]_vars

\* A reduction of two rounds has been dispatched, the first of two workgroups,
\* each of which wrote its own output.
C28_Witness ==
    /\ lastCall.op = "reduceDispatches"
    /\ Len(lastCall.dispatches) = 2
    /\ lastCall.dispatches[1].numElems > wgSize
    /\ lastCall.dispatches[1].vsOut[1] # lastCall.dispatches[1].before[1]
    /\ lastCall.dispatches[1].vsOut[2] # lastCall.dispatches[1].before[2]

\* The positions of the seed cells of the seed grid vs of shape g.
SeedPositions(g, vs) ==
    {cell_center(g, decompose_ix(g, n - 1)) : n \in {m \in 1..Len(vs) : vs[m] > 0}}

\* One step during the passes of distField.
C29_Step ==
    /\ dfpc' \in {"pass", "final"} =>
          \A k \in 1..Len(dfBuf') :
             dfBuf'[k].w >= 0 =>
                /\ dfBuf'[k].xyz \in SeedPositions(grid[dfArgs'[1]], cells[dfArgs'[1]])
                /\ dfBuf'[k].w = distance(dfBuf'[k].xyz,
                                          cell_center(grid[dfArgs'[1]],
                                                      decompose_ix(grid[dfArgs'[1]], k - 1)))
    /\ dfpc = "pass" /\ dfpc' \in {"pass", "final"} =>
          \A k \in 1..Len(dfBuf) :
             /\ dfBuf[k].w = 0 => dfBuf'[k] = dfBuf[k]
             /\ dfBuf[k].w >= 0 => dfBuf'[k].w <= dfBuf[k].w

\* C29: during the jump flood passes every entry of df with w >= 0 holds in
\* xyz the position of a seed cell and in w the distance from its own cell's
\* position to that seed; the entry of a seed cell is never modified, and the
\* w of a valid entry never increases.
C29_EntriesPointAtSeeds == [][C29_Step]_vars

\* The elements of the sequence q.
Elements(q) == {q[i] : i \in 1..Len(q)}

\* C30: on grids with a dimension that is the block size, more, or less,
\* traverseAllPointsInside calls the visitor only on cells of the grid whose
\* centre satisfies sdf(centre) <= offset, on no cell twice, and every cell of
\* the grid is in exactly one of the blocks enumerated.
C30_VisitsInRangeOnce ==
    (lastCall.op = "fillShape" /\ lastCall.status = "ok")
      => LET g == grid[lastCall.args[1]]
             cs == TraversedCells(g, lastCall.shape, OffsetOf(lastCall.mode))
             blocks == AllBlocks(g)
         IN /\ \A i \in 1..Len(cs) :
                  /\ cs[i] \in CellsOf(g)
                  /\ SdfLeq(createSdf(lastCall.shape, centerOf(g, cs[i])),
                            RoundOffset(lastCall.mode), g.res)
                  /\ get(g, cells[lastCall.args[1]], cs[i]) = lastCall.val
            /\ Cardinality(Elements(cs)) = Len(cs)
            /\ \A c \in CellsOf(g) :
                  Cardinality({k \in 1..Len(blocks) :
                                  c \in Elements(BlockCells(g, blocks[k]))}) = 1

\* fillShape has run on a grid with a dimension of exactly one block: the
\* visitor ran on the last cell of the block, and the second block, which has
\* no cell in the grid, was kept.
C30_Witness ==
    /\ lastCall.op = "fillShape" /\ lastCall.status = "ok"
    /\ grid["h"].numX = blockSize
    /\ cells["h"][blockSize] = lastCall.val
    /\ Len(AllBlocks(grid["h"])) = 2
    /\ BlockKept(grid["h"], lastCall.shape, OffsetOf(lastCall.mode), <<1, 0, 0>>)
    /\ <<blockSize - 1, 0, 0>>
          \in Elements(TraversedCells(grid["h"], lastCall.shape, OffsetOf(lastCall.mode)))

====
